---- MODULE Spec2Model ----
(***************************************************************************)
(* RepoFlow backend: the rolling-window metrics engine (metrics.rs) and    *)
(* the TTL cache with its eviction-triggered refresh worker (cache.rs).    *)
(*                                                                         *)
(* Instants (DateTime<Utc>) are seconds since 1970-01-01T00:00:00Z,        *)
(* calendar days (NaiveDate) are days since 1970-01-01, and a formatted    *)
(* "%Y-%m-%d" date is the triple <<year, month, day>>.                     *)
(***************************************************************************)
EXTENDS Integers, Sequences, FiniteSets, TLC

VARIABLES
    \* ---- metrics engine: the inputs and the result of calculate_metrics
    prs,                \* &[GitHubPR], newest first as the upstream returns them
    days_to_display,    \* days_to_display.num_days()
    window_size,        \* window_size.num_days()
    now,                \* the reference instant
    response,           \* RepoMetricsResponse of the last call
    mpc,                \* "input" while records are gathered, "done" after the call
    \* ---- calculate_summary applied to a time series of its own
    series_in,          \* &[FlowMetricsResponse] handed to calculate_summary
    summary_out,        \* SummaryMetrics it returned
    spc,                \* "input" / "done"
    \* ---- MetricsCache: the moka cache, the expiry channel, the tasks
    clock,              \* the time, in ticks
    inner,              \* MetricsCache.inner: key -> <<>> or <<[value, last_modified]>>
    chan,               \* the unbounded mpsc channel of expired keys (tx -> rx)
    rx_open,            \* the receiver is alive (the refresh task has not been dropped)
    worker,             \* the refresh task: where it is, the key and metrics it holds
    gets,               \* the calls of MetricsCache::get in progress, per request
    inserted_at,        \* per key: the time of the last insert, -1 before the first
    notes,              \* the (key, cause) calls of the eviction listener in the last step
    \* ---- MetricsQuerier: the task that refreshes the popular repositories
    dispatcher,         \* the spawned task: where it is, its interval, its limit
    tasks,              \* per popular repository: its refresh_repo future
    \* ---- one GET /api/repos/{owner}/{repo}/metrics and its fetch_pull_requests
    upstream,           \* what GitHub lists for the repository, and where it fails
    fetch,              \* the call of fetch_pull_requests: its locals and its requests
    handler             \* the request handler: where it is, the status it answered

metricsVars == <<prs, days_to_display, window_size, now, response, mpc>>
summaryVars == <<series_in, summary_out, spc>>
cacheVars == <<clock, inner, chan, rx_open, worker, gets, inserted_at, notes>>
preloadVars == <<dispatcher, tasks>>
fetchVars == <<upstream, fetch, handler>>
vars == <<prs, days_to_display, window_size, now, response, mpc,
          series_in, summary_out, spc,
          clock, inner, chan, rx_open, worker, gets, inserted_at, notes,
          dispatcher, tasks, upstream, fetch, handler>>

(***************************************************************************)
(* Bounds of the model.                                                    *)
(***************************************************************************)
MaxPrs == 3             \* records handed to calculate_metrics
MaxDisplayDays == 2     \* largest days_to_display explored
MaxWindowDays == 2      \* largest window_size explored
MaxOpened == 40         \* largest opened count of a point given to calculate_summary
MaxMerged == 41         \* largest merged count of a point given to calculate_summary
MaxClock == 2           \* ticks the clock runs
cache_ttl == 2          \* time_to_live, in ticks
cache_max_capacity == 1 \* max_capacity, in entries
OverflowDays == 100000000   \* a days_to_display beyond the calendar's range
MaxLimit == 2           \* largest popular_repos_concurrency_limit explored
MaxRecords == 4         \* pull requests the upstream lists for a repository
PerPage == 2            \* records on a full page
MaxPages == 3           \* largest small max_github_api_pages explored
MaxFetchDays == 1       \* largest pr_fetch_days explored

(***************************************************************************)
(* chrono: calendar arithmetic.                                            *)
(***************************************************************************)
SecondsPerDay == 86400
END_OF_DAY_HOUR == 23
END_OF_DAY_MIN == 59
END_OF_DAY_SEC == 59

\* DateTime<Utc>::date_naive: the calendar day of an instant.
date_naive(t) == t \div SecondsPerDay

\* instant - Duration::days(i)
minus_days(t, i) == t - i * SecondsPerDay

\* NaiveDate -> (year, month, day) of the proleptic Gregorian calendar.
Civil(z0) ==
    LET z   == z0 + 719468
        era == z \div 146097
        doe == z - era * 146097
        yoe == (doe - doe \div 1460 + doe \div 36524 - doe \div 146096) \div 365
        doy == doe - (365 * yoe + yoe \div 4 - yoe \div 100)
        mp  == (5 * doy + 2) \div 153
        d   == doy - (153 * mp + 2) \div 5 + 1
        m   == IF mp < 10 THEN mp + 3 ELSE mp - 9
        y   == yoe + era * 400 + (IF m <= 2 THEN 1 ELSE 0)
    IN  <<y, m, d>>

\* (year, month, day) -> NaiveDate.
DaysFromCivil(ymd) ==
    LET y   == IF ymd[2] <= 2 THEN ymd[1] - 1 ELSE ymd[1]
        era == y \div 400
        yoe == y - era * 400
        mp  == IF ymd[2] > 2 THEN ymd[2] - 3 ELSE ymd[2] + 9
        doy == (153 * mp + 2) \div 5 + ymd[3] - 1
        doe == yoe * 365 + yoe \div 4 - yoe \div 100 + doy
    IN  era * 146097 + doe - 719468

\* Utc.with_ymd_and_hms(y, m, d, h, min, s).unwrap()
with_ymd_and_hms(y, m, d, h, mi, s) ==
    DaysFromCivil(<<y, m, d>>) * SecondsPerDay + h * 3600 + mi * 60 + s

\* DateTime::format("%Y-%m-%d")
format_ymd(t) == Civil(date_naive(t))

\* chrono's NaiveDate::MIN and NaiveDate::MAX
NaiveDate_MIN == DaysFromCivil(<<0 - 262143, 1, 1>>)
NaiveDate_MAX == DaysFromCivil(<<262142, 12, 31>>)

\* NaiveDate - Duration is checked_sub_signed(..).expect(..): it panics when
\* the day it yields is not a NaiveDate
checked_sub_signed(date, days) ==
    IF NaiveDate_MIN <= date - days /\ date - days <= NaiveDate_MAX
    THEN <<date - days>>
    ELSE <<>>

(***************************************************************************)
(* Timeline and PrefixTimeline. Vec indices are 0-based in the source and  *)
(* sequences 1-based here: counts[idx] of the source is counts[idx + 1].   *)
(***************************************************************************)
\* a timeline that leaves out the bucket of its last day
Timeline_new_exclusive(start_date, end_date) ==
    LET days == end_date - start_date
        size == IF days >= 0 THEN days ELSE 0
    IN  [start_date |-> start_date, end_date |-> end_date,
         counts |-> [i \in 1..size |-> 0]]

Timeline_new(start_date, end_date) ==
    LET days == end_date - start_date
        size == IF days >= 0 THEN days + 1 ELSE 0
    IN  [start_date |-> start_date, end_date |-> end_date,
         counts |-> [i \in 1..size |-> 0]]

Timeline_increment(tl, date) ==
    IF date >= tl.start_date /\ date <= tl.end_date
    THEN LET idx == date - tl.start_date
         IN  IF idx < Len(tl.counts)
             THEN [tl EXCEPT !.counts[idx + 1] = @ + 1]
             ELSE tl
    ELSE tl

RECURSIVE PrefixCounts(_, _)
\* the loop of into_prefix_sums over the first n buckets
PrefixCounts(counts, n) ==
    IF n = 0 THEN <<>>
    ELSE LET before == PrefixCounts(counts, n - 1)
             sum    == (IF n = 1 THEN 0 ELSE before[n - 1]) + counts[n]
         IN  Append(before, sum)

into_prefix_sums(tl) ==
    [start_date |-> tl.start_date,
     prefix_counts |-> PrefixCounts(tl.counts, Len(tl.counts))]

\* *self.prefix_counts.last().unwrap_or(&0)
LastOrZero(s) == IF Len(s) = 0 THEN 0 ELSE s[Len(s)]

\* a subtraction that is not clamped
saturating_sub_plain(a, b) == a - b

\* usize::saturating_sub
saturating_sub(a, b) == IF a >= b THEN a - b ELSE 0

\* sum_in_window with the window start one bucket too early: [d - W, d]
sum_in_window_closed(pt, end_date, window_size_days) ==
    LET end_idx_signed == end_date - pt.start_date
    IN  IF end_idx_signed < 0 THEN 0
        ELSE
          LET end_val == IF end_idx_signed < Len(pt.prefix_counts)
                         THEN pt.prefix_counts[end_idx_signed + 1]
                         ELSE LastOrZero(pt.prefix_counts)
              start_idx_signed == end_idx_signed - window_size_days - 1
              start_val == IF start_idx_signed < 0 THEN 0
                           ELSE IF start_idx_signed < Len(pt.prefix_counts)
                                THEN pt.prefix_counts[start_idx_signed + 1]
                                ELSE LastOrZero(pt.prefix_counts)
          IN  saturating_sub(end_val, start_val)

sum_in_window(pt, end_date, window_size_days) ==
    LET end_idx_signed == end_date - pt.start_date
    IN  IF end_idx_signed < 0 THEN 0
        ELSE
          LET end_val == IF end_idx_signed < Len(pt.prefix_counts)
                         THEN pt.prefix_counts[end_idx_signed + 1]
                         ELSE LastOrZero(pt.prefix_counts)
              start_idx_signed == end_idx_signed - window_size_days
              start_val == IF start_idx_signed < 0 THEN 0
                           ELSE IF start_idx_signed < Len(pt.prefix_counts)
                                THEN pt.prefix_counts[start_idx_signed + 1]
                                ELSE LastOrZero(pt.prefix_counts)
          IN  saturating_sub(end_val, start_val)

\* sum_in_window: the index of the bucket of end_date
end_idx_signed(pt, end_date) == end_date - pt.start_date

\* sum_in_window: window start index = end_idx - window_size
start_idx_signed(pt, end_date, window_size_days) ==
    end_idx_signed(pt, end_date) - window_size_days

(***************************************************************************)
(* f64 arithmetic of the merge rate. A positive f64 is kept as its 53-bit  *)
(* significand in five limbs of LimbBits bits, most significant first      *)
(* (limbs[1] holds the bits from 2^52 up), and the exponent exp of its     *)
(* leading bit: the value is Limbs(limbs) * 2^(exp - 52). Every operation  *)
(* rounds to nearest, ties to even, as IEEE 754 binary64 does.             *)
(***************************************************************************)
LimbBits == 13
Limb == 8192

RECURSIVE Pow2(_)
Pow2(n) == IF n <= 0 THEN 1 ELSE 2 * Pow2(n - 1)

RECURSIVE Log2Up(_, _, _)
\* the e >= 0 with 2^e <= m/o < 2^(e+1), for m >= o
Log2Up(m, o, e) == IF m >= 2 * o * Pow2(e) THEN Log2Up(m, o, e + 1) ELSE e

RECURSIVE Log2Down(_, _, _)
\* the k >= 1 with 2^(-k) <= m/o < 2^(-k+1), for m < o
Log2Down(m, o, k) == IF m * Pow2(k) < o THEN Log2Down(m, o, k + 1) ELSE k

\* limbs + unit, unit a multiple of the lowest limb's place, carries propagated
LimbsAdd(l, unit) ==
    LET s5 == l[5] + unit
        s4 == l[4] + (s5 \div Limb)
        s3 == l[3] + (s4 \div Limb)
        s2 == l[2] + (s3 \div Limb)
    IN  <<l[1] + (s2 \div Limb), s2 % Limb, s3 % Limb, s4 % Limb, s5 % Limb>>

\* limbs * k exactly (the top limb takes the excess bits)
LimbsMul(l, k) ==
    LET s5 == l[5] * k
        s4 == (l[4] * k) + ( s5 \div Limb)
        s3 == (l[3] * k) + ( s4 \div Limb)
        s2 == (l[2] * k) + ( s3 \div Limb)
    IN  <<(l[1] * k) + (s2 \div Limb), s2 % Limb, s3 % Limb, s4 % Limb, s5 % Limb>>

\* (m as f64) / (o as f64) for integers 0 <= m and 0 < o below 2^10
F64Div(m, o) ==
    IF m = 0 THEN [limbs |-> <<0, 0, 0, 0, 0>>, exp |-> 0]
    ELSE
      LET e  == IF m >= o THEN Log2Up(m, o, 0) ELSE 0 - Log2Down(m, o, 1)
          mm == IF e >= 0 THEN m ELSE m * Pow2(0 - e)
          oo == IF e >= 0 THEN o * Pow2(e) ELSE o
          \* long division of mm / oo in [1, 2): 52 fraction bits, four limbs
          r0 == mm - oo
          d1 == (r0 * Limb) \div oo
          r1 == (r0 * Limb) % oo
          d2 == (r1 * Limb) \div oo
          r2 == (r1 * Limb) % oo
          d3 == (r2 * Limb) \div oo
          r3 == (r2 * Limb) % oo
          d4 == (r3 * Limb) \div oo
          r4 == (r3 * Limb) % oo
          up == 2 * r4 > oo \/ (2 * r4 = oo /\ d4 % 2 = 1)
          q  == <<1, d1, d2, d3, d4>>
      IN  [limbs |-> IF up THEN LimbsAdd(q, 1) ELSE q, exp |-> e]

RECURSIVE BitsAbove(_, _)
\* how many bits the top limb t has beyond the first: t in [2^s, 2^(s+1))
BitsAbove(t, s) == IF t >= Pow2(s + 1) THEN BitsAbove(t, s + 1) ELSE s

\* an exact product rounded back to 53 significant bits
Round53(l) ==
    LET s    == BitsAbove(l[1], 0)
        unit == Pow2(s)
        disc == l[5] % unit
        kept == l[5] - disc
        up   == 2 * disc > unit \/ (2 * disc = unit /\ (kept \div unit) % 2 = 1)
        cut  == <<l[1], l[2], l[3], l[4], kept>>
    IN  IF s = 0 THEN l ELSE IF up THEN LimbsAdd(cut, unit) ELSE cut

\* x * 100.0
F64Mul100(x) == [limbs |-> Round53(LimbsMul(x.limbs, 100)), exp |-> x.exp]

\* f64::round (half away from zero) followed by `as u32`
F64RoundAsU32(x) ==
    LET top == x.limbs[1] * Limb + x.limbs[2]     \* the bits from 2^39 up
        g   == (52 - x.exp) - (52 - LimbBits)      \* fraction bits within top
    IN  (top \div Pow2(g)) + ((top \div Pow2(g - 1)) % 2)

(***************************************************************************)
(* calculate_summary                                                       *)
(***************************************************************************)
SummaryMetrics_default ==
    [current_opened |-> 0, current_merged |-> 0, current_spread |-> 0,
     merge_rate |-> 0, is_widening |-> FALSE]

\* a merge rate that reads "nothing opened" as "everything merged"
merge_rate_of_full(latest) ==
    IF latest.opened > 0
    THEN F64RoundAsU32(F64Mul100(F64Div(latest.merged, latest.opened)))
    ELSE 100

merge_rate_of(latest) ==
    IF latest.opened > 0
    THEN F64RoundAsU32(F64Mul100(F64Div(latest.merged, latest.opened)))
    ELSE 0

\* is_widening that also holds for an unchanged spread
is_widening_of_loose(time_series) ==
    LET n == Len(time_series)
    IN  n >= 2 /\ time_series[n].spread >= time_series[n - 1].spread

is_widening_of(time_series) ==
    LET n == Len(time_series)
    IN  n >= 2 /\ time_series[n].spread > time_series[n - 1].spread

calculate_summary(time_series) ==
    IF Len(time_series) = 0 THEN SummaryMetrics_default
    ELSE LET latest == time_series[Len(time_series)]
         IN  [current_opened |-> latest.opened,
              current_merged |-> latest.merged,
              current_spread |-> latest.spread,
              merge_rate |-> merge_rate_of(latest),
              is_widening |-> is_widening_of(time_series)]

(***************************************************************************)
(* calculate_metrics                                                       *)
(***************************************************************************)
latest_date(t) == date_naive(t)
oldest_display_date(t, d) == latest_date(t) - d
start_date(t, d, w) == oldest_display_date(t, d) - w

RECURSIVE Populate(_, _, _, _)
\* the single pass over the first n records; which is "opened" or "merged"
Populate(tl, records, n, which) ==
    IF n = 0 THEN tl
    ELSE LET before == Populate(tl, records, n - 1, which)
             pr     == records[n]
         IN  IF which = "opened"
             THEN Timeline_increment(before, date_naive(pr.created_at))
             ELSE IF Len(pr.merged_at) = 1
                  THEN Timeline_increment(before, date_naive(pr.merged_at[1]))
                  ELSE before

opened_prefix(records, d, w, t) ==
    into_prefix_sums(Populate(Timeline_new(start_date(t, d, w), latest_date(t)),
                              records, Len(records), "opened"))

\* a merged timeline that is fed the creation days
merged_prefix_created(records, d, w, t) ==
    into_prefix_sums(Populate(Timeline_new(start_date(t, d, w), latest_date(t)),
                              records, Len(records), "opened"))

merged_prefix(records, d, w, t) ==
    into_prefix_sums(Populate(Timeline_new(start_date(t, d, w), latest_date(t)),
                              records, Len(records), "merged"))

\* a point whose spread is an unsigned difference
FlowPoint_unsigned(op, mp, w, t, i) ==
    LET dn     == date_naive(minus_days(t, i))
        opened == sum_in_window(op, dn, w)
        merged == sum_in_window(mp, dn, w)
    IN  [date |-> Civil(dn), opened |-> opened, merged |-> merged,
         spread |-> saturating_sub(opened, merged)]

\* the closure mapped over (0..=days_to_display_count).rev()
FlowPoint(op, mp, w, t, i) ==
    LET date        == minus_days(t, i)
        dn          == date_naive(date)
        opened      == sum_in_window(op, dn, w)
        merged      == sum_in_window(mp, dn, w)
        ymd         == Civil(dn)
        target_date == with_ymd_and_hms(ymd[1], ymd[2], ymd[3],
                           END_OF_DAY_HOUR, END_OF_DAY_MIN, END_OF_DAY_SEC)
    IN  [date |-> format_ymd(target_date), opened |-> opened,
         merged |-> merged, spread |-> opened - merged]

\* the series collected without .rev(): newest day first
TimeSeries_unreversed(records, d, w, t) ==
    LET op == opened_prefix(records, d, w, t)
        mp == merged_prefix(records, d, w, t)
    IN  [j \in 1..(IF d >= 0 THEN d + 1 ELSE 0) |-> FlowPoint(op, mp, w, t, j - 1)]

\* position j of the collected Vec holds i = days_to_display_count - (j - 1)
TimeSeries(records, d, w, t) ==
    LET op == opened_prefix(records, d, w, t)
        mp == merged_prefix(records, d, w, t)
    IN  [j \in 1..(IF d >= 0 THEN d + 1 ELSE 0) |-> FlowPoint(op, mp, w, t, d - (j - 1))]

calculate_metrics(records, d, w, t) ==
    LET time_series == TimeSeries(records, d, w, t)
    IN  [summary |-> calculate_summary(time_series), time_series |-> time_series]

\* the date arithmetic at the head of calculate_metrics panics
calculate_metrics_panics(d, w, t) ==
    LET oldest == checked_sub_signed(latest_date(t), d)
    IN  \/ Len(oldest) = 0
        \/ Len(checked_sub_signed(oldest[1], w)) = 0

(***************************************************************************)
(* MetricsCache: the state. The moka cache keeps, per key, at most one     *)
(* entry with the time of its last write; an Option is a sequence of at    *)
(* most one element.                                                       *)
(***************************************************************************)
Keys == { "facebook/react", "rust-lang/rust" }     \* CacheKey {owner, repo}
Requests == { "req1", "req2" }                      \* concurrent callers of get

\* the RepoMetricsResponse that fetch_and_calculate_metrics computes for a key
\* from what the upstream lists at Utc::now() = t
Snapshot(k, t) == [key |-> k, computed_at |-> t]

IdleGet == [pc |-> "idle", key |-> <<>>, metrics |-> <<>>, result |-> <<>>,
            hit |-> FALSE, fetches |-> 0]

IdleWorker == [pc |-> "recv", key |-> <<>>, metrics |-> <<>>, fetches |-> 0]

\* fetch_pull_requests is not running: its arguments, its locals (cutoff_date,
\* prs, hit_page_limit), the page requests it has issued (pages 1..requested),
\* the responses it has taken (pages 1..taken), the pages its loop has
\* processed, the page at which it met the cutoff, and what it returned
IdleFetch == [pc |-> "idle", version |-> "none", days |-> 0, max_pages |-> 0,
              cutoff_date |-> 0, prs |-> <<>>, hit_page_limit |-> TRUE,
              requested |-> 0, taken |-> 0, processed |-> 0,
              met_cutoff |-> 0, result |-> <<>>, error |-> <<>>]

\* no request is being handled
IdleHandler == [pc |-> "idle", key |-> <<>>, metrics |-> <<>>, status |-> 0]

\* the listing, the page request that is answered with an error (0: none),
\* and that answer once it has come back
NoUpstream == [records |-> <<>>, fails_at |-> 0, failure |-> <<>>]

FetchIdle ==
    /\ upstream = NoUpstream
    /\ fetch = IdleFetch
    /\ handler = IdleHandler

\* no MetricsQuerier was built: no refresh task for popular repositories
PreloadIdle ==
    /\ dispatcher = [pc |-> "off", next_tick |-> 0, limit |-> 0]
    /\ tasks = <<>>

CacheIdle ==
    /\ clock = 0
    /\ inner = [k \in Keys |-> <<>>]
    /\ chan = <<>>
    /\ rx_open = TRUE
    /\ worker = IdleWorker
    /\ gets = [r \in Requests |-> IdleGet]
    /\ inserted_at = [k \in Keys |-> 0 - 1]
    /\ notes = <<>>

(***************************************************************************)
(* The metrics engine applied to bounded inputs.                           *)
(***************************************************************************)
\* reference instants: 2024-01-10T12:00:00Z (the unit test's) and the first
\* second of 2024-03-01, whose preceding days cross the leap day
Nows ==
    { with_ymd_and_hms(2024, 1, 10, 12, 0, 0), with_ymd_and_hms(2024, 3, 1, 0, 0, 0) }

\* creation instants: 10:00:00 on each day from one day before the tracked
\* span to one day after the reference day
CreatedTimes(d, w, t) ==
    { (date_naive(t) + o) * SecondsPerDay + 10 * 3600 : o \in (0 - (d + w + 1))..1 }

\* a merge comes an hour, or two days, after the creation
MergeDelays == { 3600, 2 * SecondsPerDay }

\* GitHubPR as process_pr_page builds it
GitHubPR(created_at, merged_at) ==
    [created_at |-> created_at, merged_at |-> merged_at,
     state |-> IF Len(merged_at) = 1 THEN "Merged" ELSE "Open"]

\* Option<DateTime<Utc>> is a sequence of at most one instant
MergedChoices(c) == {<<>>} \cup { <<c + dl>> : dl \in MergeDelays }

PrRecords(d, w, t) ==
    UNION { { GitHubPR(c, m) : m \in MergedChoices(c) } : c \in CreatedTimes(d, w, t) }

EmptyResponse == [summary |-> SummaryMetrics_default, time_series |-> <<>>]

SummaryIdle ==
    /\ series_in = <<>>
    /\ summary_out = SummaryMetrics_default
    /\ spc = "idle"

MetricsInit ==
    /\ prs = <<>>
    /\ days_to_display \in 0..MaxDisplayDays
    /\ window_size \in (0 - MaxWindowDays)..MaxWindowDays
    /\ now \in Nows
    /\ response = EmptyResponse
    /\ mpc = "input"
    /\ SummaryIdle
    /\ CacheIdle
    /\ PreloadIdle
    /\ FetchIdle

\* the upstream lists pull requests by creation time, newest first
AddPr(pr) ==
    /\ mpc = "input"
    /\ Len(prs) < MaxPrs
    /\ Len(prs) > 0 => pr.created_at <= prs[Len(prs)].created_at
    /\ prs' = Append(prs, pr)
    /\ UNCHANGED <<days_to_display, window_size, now, response, mpc>>
    /\ UNCHANGED summaryVars
    /\ UNCHANGED cacheVars
    /\ UNCHANGED preloadVars
    /\ UNCHANGED fetchVars

Calculate ==
    /\ mpc = "input"
    /\ IF calculate_metrics_panics(days_to_display, window_size, now)
       THEN response' = response /\ mpc' = "panicked"
       ELSE /\ response' = calculate_metrics(prs, days_to_display, window_size, now)
            /\ mpc' = "done"
    /\ UNCHANGED <<prs, days_to_display, window_size, now>>
    /\ UNCHANGED summaryVars
    /\ UNCHANGED cacheVars
    /\ UNCHANGED preloadVars
    /\ UNCHANGED fetchVars

MetricsNext ==
    \/ \E pr \in PrRecords(days_to_display, window_size, now) : AddPr(pr)
    \/ Calculate

SpecMetrics == MetricsInit /\ [][MetricsNext]_vars

(***************************************************************************)
(* The metrics engine with a days_to_display that the configuration can    *)
(* hold and the calendar cannot.                                           *)
(***************************************************************************)
TotalInit ==
    /\ prs = <<>>
    /\ days_to_display \in (0..MaxDisplayDays) \cup {OverflowDays}
    /\ window_size \in 0..MaxWindowDays
    /\ now \in Nows
    /\ response = EmptyResponse
    /\ mpc = "input"
    /\ SummaryIdle
    /\ CacheIdle
    /\ PreloadIdle
    /\ FetchIdle

TotalNext ==
    \/ \E pr \in PrRecords(0, 1, now) : AddPr(pr)
    \/ Calculate

SpecTotal == TotalInit /\ [][TotalNext]_vars

(***************************************************************************)
(* The metrics engine on the records of test_calculate_metrics_with_data.  *)
(***************************************************************************)
TestNow == with_ymd_and_hms(2024, 1, 10, 12, 0, 0)
TestWindowDays == 30

\* the two records of the test, each with and without a merge a day later
TestRecords ==
    { GitHubPR(c, m) :
        c \in { with_ymd_and_hms(2024, 1, 5, 10, 0, 0),
                with_ymd_and_hms(2024, 1, 9, 10, 0, 0) },
        m \in { <<>>, <<with_ymd_and_hms(2024, 1, 6, 10, 0, 0)>> } }

TestPr1 ==
    GitHubPR(with_ymd_and_hms(2024, 1, 5, 10, 0, 0),
             <<with_ymd_and_hms(2024, 1, 6, 10, 0, 0)>>)

TestPr2 == GitHubPR(with_ymd_and_hms(2024, 1, 9, 10, 0, 0), <<>>)

ScenarioInit ==
    /\ prs = <<>>
    /\ days_to_display \in 0..MaxDisplayDays
    /\ window_size = TestWindowDays
    /\ now = TestNow
    /\ response = EmptyResponse
    /\ mpc = "input"
    /\ SummaryIdle
    /\ CacheIdle
    /\ PreloadIdle
    /\ FetchIdle

\* vec![..]: the records in the order the test writes them
PushPr(pr) ==
    /\ mpc = "input"
    /\ Len(prs) < MaxPrs
    /\ prs' = Append(prs, pr)
    /\ UNCHANGED <<days_to_display, window_size, now, response, mpc>>
    /\ UNCHANGED summaryVars
    /\ UNCHANGED cacheVars
    /\ UNCHANGED preloadVars
    /\ UNCHANGED fetchVars

ScenarioNext ==
    \/ \E pr \in TestRecords : PushPr(pr)
    \/ Calculate

SpecScenario == ScenarioInit /\ [][ScenarioNext]_vars

(***************************************************************************)
(* calculate_summary applied to bounded time series.                       *)
(***************************************************************************)
FlowMetricsResponse(day, opened, merged) ==
    [date |-> Civil(day), opened |-> opened, merged |-> merged,
     spread |-> opened - merged]

\* the day before the last: a point of small counts
PreviousPoints ==
    { FlowMetricsResponse(date_naive(t) - 1, o, m) : t \in Nows, o \in 0..1, m \in 0..1 }

LatestPoints ==
    { FlowMetricsResponse(date_naive(t), o, m) :
          t \in Nows, o \in 0..MaxOpened, m \in 0..MaxMerged }

MetricsIdle ==
    /\ prs = <<>>
    /\ days_to_display = 0
    /\ window_size = 0
    /\ now = 0
    /\ response = EmptyResponse
    /\ mpc = "idle"

SummaryInit ==
    /\ series_in \in {<<>>} \cup { <<p>> : p \in PreviousPoints }
    /\ summary_out = SummaryMetrics_default
    /\ spc = "input"
    /\ MetricsIdle
    /\ CacheIdle
    /\ PreloadIdle
    /\ FetchIdle

AppendLatest(p) ==
    /\ spc = "input"
    /\ IF Len(series_in) = 0 THEN TRUE
       ELSE DaysFromCivil(p.date) = DaysFromCivil(series_in[1].date) + 1
    /\ series_in' = Append(series_in, p)
    /\ spc' = "ready"
    /\ UNCHANGED summary_out
    /\ UNCHANGED metricsVars
    /\ UNCHANGED cacheVars
    /\ UNCHANGED preloadVars
    /\ UNCHANGED fetchVars

Summarize ==
    /\ spc \in {"input", "ready"}
    /\ summary_out' = calculate_summary(series_in)
    /\ spc' = "done"
    /\ UNCHANGED series_in
    /\ UNCHANGED metricsVars
    /\ UNCHANGED cacheVars
    /\ UNCHANGED preloadVars
    /\ UNCHANGED fetchVars

SummaryNext ==
    \/ \E p \in LatestPoints : AppendLatest(p)
    \/ Summarize

SpecSummary == SummaryInit /\ [][SummaryNext]_vars

(***************************************************************************)
(* MetricsCache: the moka cache (time_to_live, max_capacity and the        *)
(* eviction listener), MetricsCache::get and the refresh task.             *)
(***************************************************************************)
Present(c) == { k \in Keys : Len(c[k]) = 1 }

\* time_to_live: an entry has expired once cache_ttl has passed since its write
IsExpired(entry, t) == t >= entry.last_modified + cache_ttl

ExpiredKeys(c, t) == { k \in Present(c) : IsExpired(c[k][1], t) }

\* Cache::get that hands out an entry until housekeeping removes it
CacheGet_stale(c, k, t) == IF Len(c[k]) = 1 THEN <<c[k][1].value>> ELSE <<>>

\* Cache::get: the value of a present entry that has not expired
CacheGet(c, k, t) ==
    IF Len(c[k]) = 1 /\ ~IsExpired(c[k][1], t) THEN <<c[k][1].value>> ELSE <<>>

\* a listener that forwards every removal, whatever its cause
eviction_listener_any(ch, open, key, cause) == IF open THEN Append(ch, key) ELSE ch

\* a listener that tests for the wrong cause
eviction_listener_size(ch, open, key, cause) ==
    IF cause = "Size" THEN IF open THEN Append(ch, key) ELSE ch ELSE ch

\* a listener that keeps the key for later when the send fails
eviction_listener_keeps(ch, open, key, cause) ==
    IF cause = "Expired" THEN Append(ch, key) ELSE ch

\* the eviction_listener closure: what it leaves in the channel
eviction_listener(ch, open, key, cause) ==
    IF cause = "Expired"
    THEN IF open THEN Append(ch, key)     \* tx.send(key) is Ok
         ELSE ch                          \* tx.send(key) is Err: logged, dropped
    ELSE ch

RECURSIVE Listen(_, _, _, _)
\* the listener called for the first n notifications of a step, in order
Listen(ch, open, ns, n) ==
    IF n = 0 THEN ch
    ELSE eviction_listener(Listen(ch, open, ns, n - 1), open,
                           ns[n].key, ns[n].cause)

Note(k, cause) == [key |-> k, cause |-> cause]

\* the removals of a step reach the listener
Notify(ns) ==
    /\ notes' = ns
    /\ chan' = Listen(chan, rx_open, ns, Len(ns))

\* the cause moka reports for the entry an insert writes over
UpsertNotes(c, k, t) ==
    IF Len(c[k]) = 1
    THEN <<Note(k, IF IsExpired(c[k][1], t) THEN "Expired" ELSE "Replaced")>>
    ELSE <<>>

\* an insert that updates the value in place and keeps the old write time
Upsert_in_place(c, k, v, t) ==
    [c EXCEPT ![k] = <<[value |-> v,
                        last_modified |-> IF Len(c[k]) = 1
                                          THEN c[k][1].last_modified ELSE t]>>]

Upsert(c, k, v, t) == [c EXCEPT ![k] = <<[value |-> v, last_modified |-> t]>>]

\* Cache::insert(k, v): the entry is written at once; the capacity is
\* enforced later, by housekeeping
CacheInsert(k, v) ==
    /\ inserted_at' = [inserted_at EXCEPT ![k] = clock]
    /\ inner' = Upsert(inner, k, v, clock)
    /\ Notify(UpsertNotes(inner, k, clock))

NoCacheWrite ==
    /\ UNCHANGED <<inner, chan, inserted_at>>
    /\ notes' = <<>>

\* time passes
Tick ==
    /\ clock < MaxClock
    /\ clock' = clock + 1
    /\ NoCacheWrite
    /\ UNCHANGED <<rx_open, worker, gets>>
    /\ UNCHANGED <<metricsVars, summaryVars, preloadVars, fetchVars>>

\* moka's housekeeping removes an entry that has expired
ExpireEntry(k) ==
    /\ k \in ExpiredKeys(inner, clock)
    /\ inner' = [inner EXCEPT ![k] = <<>>]
    /\ Notify(<<Note(k, "Expired")>>)
    /\ UNCHANGED <<clock, rx_open, worker, gets, inserted_at>>
    /\ UNCHANGED <<metricsVars, summaryVars, preloadVars, fetchVars>>

\* a housekeeping that evicts although the cache is within its capacity
EvictEntry_anytime(k) ==
    /\ k \in Present(inner)
    /\ inner' = [inner EXCEPT ![k] = <<>>]
    /\ Notify(<<Note(k, "Size")>>)
    /\ UNCHANGED <<clock, rx_open, worker, gets, inserted_at>>
    /\ UNCHANGED <<metricsVars, summaryVars, preloadVars, fetchVars>>

\* max_capacity: moka's housekeeping finds more entries than max_capacity and
\* removes one that its admission policy picks, the newest not excepted
EvictEntry(k) ==
    /\ Cardinality(Present(inner)) > cache_max_capacity
    /\ k \in Present(inner)
    /\ inner' = [inner EXCEPT ![k] = <<>>]
    /\ Notify(<<Note(k, "Size")>>)
    /\ UNCHANGED <<clock, rx_open, worker, gets, inserted_at>>
    /\ UNCHANGED <<metricsVars, summaryVars, preloadVars, fetchVars>>

\* a get over a cache built with time_to_idle: a hit renews the entry
Get_Lookup_touches(r, k) ==
    /\ gets[r].pc = "idle"
    /\ LET found == CacheGet(inner, k, clock)
       IN  /\ gets' = [gets EXCEPT ![r] =
                  IF Len(found) = 1
                  THEN [IdleGet EXCEPT !.pc = "done", !.key = <<k>>, !.hit = TRUE,
                                       !.result = <<found[1]>>]
                  ELSE [IdleGet EXCEPT !.pc = "fetching", !.key = <<k>>]]
           /\ inner' = IF Len(found) = 1
                       THEN [inner EXCEPT ![k][1].last_modified = clock]
                       ELSE inner
    /\ notes' = <<>>
    /\ UNCHANGED <<clock, chan, inserted_at, rx_open, worker>>
    /\ UNCHANGED <<metricsVars, summaryVars, preloadVars, fetchVars>>

\* MetricsCache::get, up to the cache lookup
Get_Lookup(r, k) ==
    /\ gets[r].pc = "idle"
    /\ LET found == CacheGet(inner, k, clock)
       IN  gets' = [gets EXCEPT ![r] =
                IF Len(found) = 1
                THEN [IdleGet EXCEPT !.pc = "done", !.key = <<k>>, !.hit = TRUE,
                                     !.result = <<found[1]>>]
                ELSE [IdleGet EXCEPT !.pc = "fetching", !.key = <<k>>]]
    /\ NoCacheWrite
    /\ UNCHANGED <<clock, rx_open, worker>>
    /\ UNCHANGED <<metricsVars, summaryVars, preloadVars, fetchVars>>

\* fetches that hand their result over through a slot shared by the callers:
\* a get may pick up the snapshot fetched for another get's key
Get_FetchOk_shared(r) ==
    /\ gets[r].pc = "fetching"
    /\ \E q \in { p \in Requests : gets[p].pc = "fetching" } :
         gets' = [gets EXCEPT ![r].pc = "inserting",
                              ![r].metrics = <<Snapshot(gets[q].key[1], clock)>>,
                              ![r].fetches = @ + 1]
    /\ NoCacheWrite
    /\ UNCHANGED <<clock, rx_open, worker>>
    /\ UNCHANGED <<metricsVars, summaryVars, preloadVars, fetchVars>>

\* fetch_and_calculate_metrics returns Ok(metrics)
Get_FetchOk(r) ==
    /\ gets[r].pc = "fetching"
    /\ gets' = [gets EXCEPT ![r].pc = "inserting",
                            ![r].metrics = <<Snapshot(gets[r].key[1], clock)>>,
                            ![r].fetches = @ + 1]
    /\ NoCacheWrite
    /\ UNCHANGED <<clock, rx_open, worker>>
    /\ UNCHANGED <<metricsVars, summaryVars, preloadVars, fetchVars>>

\* a get that caches an empty response when its fetch fails
Get_FetchErr_caches(r) ==
    /\ gets[r].pc = "fetching"
    /\ gets' = [gets EXCEPT ![r].pc = "failed", ![r].fetches = @ + 1]
    /\ CacheInsert(gets[r].key[1], Snapshot(gets[r].key[1], 0 - 1))
    /\ UNCHANGED <<clock, rx_open, worker>>
    /\ UNCHANGED <<metricsVars, summaryVars, preloadVars, fetchVars>>

\* fetch_and_calculate_metrics returns Err: `?` returns it to the caller
Get_FetchErr(r) ==
    /\ gets[r].pc = "fetching"
    /\ gets' = [gets EXCEPT ![r].pc = "failed", ![r].fetches = @ + 1]
    /\ NoCacheWrite
    /\ UNCHANGED <<clock, rx_open, worker>>
    /\ UNCHANGED <<metricsVars, summaryVars, preloadVars, fetchVars>>

\* get that keeps an unexpired entry another caller stored meanwhile
Get_Insert_if_absent(r) ==
    /\ gets[r].pc = "inserting"
    /\ IF CacheGet(inner, gets[r].key[1], clock) = <<>>
       THEN CacheInsert(gets[r].key[1], gets[r].metrics[1])
       ELSE NoCacheWrite
    /\ gets' = [gets EXCEPT ![r].pc = "done", ![r].result = gets[r].metrics]
    /\ UNCHANGED <<clock, rx_open, worker>>
    /\ UNCHANGED <<metricsVars, summaryVars, preloadVars, fetchVars>>

\* get that returns what it computed without storing it
Get_Insert_unstored(r) ==
    /\ gets[r].pc = "inserting"
    /\ gets' = [gets EXCEPT ![r].pc = "done", ![r].result = gets[r].metrics]
    /\ NoCacheWrite
    /\ UNCHANGED <<clock, rx_open, worker>>
    /\ UNCHANGED <<metricsVars, summaryVars, preloadVars, fetchVars>>

\* self.inner.insert(key, metrics.clone()).await; Ok(metrics)
Get_Insert(r) ==
    /\ gets[r].pc = "inserting"
    /\ CacheInsert(gets[r].key[1], gets[r].metrics[1])
    /\ gets' = [gets EXCEPT ![r].pc = "done", ![r].result = gets[r].metrics]
    /\ UNCHANGED <<clock, rx_open, worker>>
    /\ UNCHANGED <<metricsVars, summaryVars, preloadVars, fetchVars>>

\* the caller has its answer; the request slot serves the next call
Get_Return(r) ==
    /\ gets[r].pc \in {"done", "failed"}
    /\ gets' = [gets EXCEPT ![r] = IdleGet]
    /\ NoCacheWrite
    /\ UNCHANGED <<clock, rx_open, worker>>
    /\ UNCHANGED <<metricsVars, summaryVars, preloadVars, fetchVars>>

\* a refresh task that takes the next key as soon as one arrives and
\* abandons the fetch it was waiting for
Worker_Recv_early ==
    /\ worker.pc \in {"recv", "fetching"}
    /\ rx_open
    /\ Len(chan) > 0
    /\ worker' = [IdleWorker EXCEPT !.pc = "fetching", !.key = <<Head(chan)>>]
    /\ chan' = Tail(chan)
    /\ notes' = <<>>
    /\ UNCHANGED <<clock, inner, rx_open, gets, inserted_at>>
    /\ UNCHANGED <<metricsVars, summaryVars, preloadVars, fetchVars>>

\* while let Some(key) = rx.recv().await
Worker_Recv ==
    /\ worker.pc = "recv"
    /\ rx_open
    /\ Len(chan) > 0
    /\ worker' = [IdleWorker EXCEPT !.pc = "fetching", !.key = <<Head(chan)>>]
    /\ chan' = Tail(chan)
    /\ notes' = <<>>
    /\ UNCHANGED <<clock, inner, rx_open, gets, inserted_at>>
    /\ UNCHANGED <<metricsVars, summaryVars, preloadVars, fetchVars>>

\* a refresh task that ends its loop when a fetch fails
AfterRefreshErr_stop(w) == [w EXCEPT !.pc = "stopped", !.fetches = @ + 1]

\* a refresh task that tries again when its fetch fails
AfterRefreshErr_retry(w) == [w EXCEPT !.pc = "fetching", !.fetches = @ + 1]

\* what the refresh task does when its fetch fails: log, next iteration
AfterRefreshErr(w) == [w EXCEPT !.pc = "recv", !.fetches = @ + 1]

\* refresher.fetch_and_calculate_metrics returns Ok(metrics)
Worker_FetchOk ==
    /\ worker.pc = "fetching"
    /\ worker' = [worker EXCEPT !.pc = "inserting",
                                !.metrics = <<Snapshot(worker.key[1], clock)>>,
                                !.fetches = @ + 1]
    /\ NoCacheWrite
    /\ UNCHANGED <<clock, rx_open, gets>>
    /\ UNCHANGED <<metricsVars, summaryVars, preloadVars, fetchVars>>

\* a refresh task that stores an empty response when its fetch fails
Worker_FetchErr_stores ==
    /\ worker.pc = "fetching"
    /\ worker' = AfterRefreshErr(worker)
    /\ CacheInsert(worker.key[1], Snapshot(worker.key[1], 0 - 1))
    /\ UNCHANGED <<clock, rx_open, gets>>
    /\ UNCHANGED <<metricsVars, summaryVars, preloadVars, fetchVars>>

\* refresher.fetch_and_calculate_metrics returns Err((status, msg))
Worker_FetchErr ==
    /\ worker.pc = "fetching"
    /\ worker' = AfterRefreshErr(worker)
    /\ NoCacheWrite
    /\ UNCHANGED <<clock, rx_open, gets>>
    /\ UNCHANGED <<metricsVars, summaryVars, preloadVars, fetchVars>>

\* a refresh task that handles one key and ends (`if let` for `while let`)
Worker_Insert_once ==
    /\ worker.pc = "inserting"
    /\ CacheInsert(worker.key[1], worker.metrics[1])
    /\ worker' = [worker EXCEPT !.pc = "stopped"]
    /\ UNCHANGED <<clock, rx_open, gets>>
    /\ UNCHANGED <<metricsVars, summaryVars, preloadVars, fetchVars>>

\* refresher.inner.insert(key.as_ref().clone(), metrics).await
Worker_Insert ==
    /\ worker.pc = "inserting"
    /\ CacheInsert(worker.key[1], worker.metrics[1])
    /\ worker' = [worker EXCEPT !.pc = "recv"]
    /\ UNCHANGED <<clock, rx_open, gets>>
    /\ UNCHANGED <<metricsVars, summaryVars, preloadVars, fetchVars>>

\* the runtime shuts down: the refresh task is dropped and rx with it
Shutdown ==
    /\ rx_open
    /\ rx_open' = FALSE
    /\ worker' = [worker EXCEPT !.pc = "stopped"]
    /\ NoCacheWrite
    /\ UNCHANGED <<clock, gets>>
    /\ UNCHANGED <<metricsVars, summaryVars, preloadVars, fetchVars>>

WorkerStep ==
    \/ Worker_Recv
    \/ Worker_FetchOk
    \/ Worker_FetchErr
    \/ Worker_Insert

CacheInit ==
    /\ CacheIdle
    /\ PreloadIdle
    /\ FetchIdle
    /\ MetricsIdle
    /\ SummaryIdle

CacheNext ==
    \/ Tick
    \/ \E k \in Keys : ExpireEntry(k)
    \/ \E k \in Keys : EvictEntry(k)
    \/ \E r \in Requests, k \in Keys : Get_Lookup(r, k)
    \/ \E r \in Requests : Get_FetchOk(r)
    \/ \E r \in Requests : Get_FetchErr(r)
    \/ \E r \in Requests : Get_Insert(r)
    \/ \E r \in Requests : Get_Return(r)
    \/ WorkerStep
    \/ Shutdown

\* the refresh task is scheduled whenever it can take a step
SpecCache == CacheInit /\ [][CacheNext]_vars /\ WF_vars(WorkerStep)

(***************************************************************************)
(* MetricsQuerier: the same read-through get over a cache built without an *)
(* eviction listener, and the task that start_background_refresh spawns.   *)
(***************************************************************************)
\* config.popular_repos
popular_repos == << "facebook/react", "rust-lang/rust" >>

\* config.cache_ttl_seconds / 2, the period of the interval
refresh_period == cache_ttl \div 2

\* for_each_concurrent(Some(n), ..): the limit is kept as Option<NonZeroUsize>,
\* so a limit of zero is no limit at all
ConcurrencyLimit(n) == IF n = 0 THEN <<>> ELSE <<n>>

NoTask == [pc |-> "none", metrics |-> <<>>]

\* refresh_repo futures that have been started and have not completed
InFlight == { i \in 1..Len(tasks) : tasks[i].pc \in {"fetching", "inserting"} }

\* MetricsQuerier::new: the cache has no listener and there is no refresh
\* worker; the dispatcher task is spawned and waits for its first tick
PreloadInit ==
    /\ clock = 0
    /\ inner = [k \in Keys |-> <<>>]
    /\ chan = <<>>
    /\ rx_open = FALSE
    /\ worker = [IdleWorker EXCEPT !.pc = "stopped"]
    /\ gets = [r \in Requests |-> IdleGet]
    /\ inserted_at = [k \in Keys |-> 0 - 1]
    /\ notes = <<>>
    /\ \E n \in 0..MaxLimit :
         dispatcher = [pc |-> "tick", next_tick |-> 0, limit |-> n]
    /\ tasks = [i \in 1..Len(popular_repos) |-> NoTask]
    /\ MetricsIdle
    /\ SummaryIdle
    /\ FetchIdle

\* interval.tick().await returns: the first tick at once, the later ones a
\* period after the one before; the stream of popular_repos is set up
Preload_Tick ==
    /\ dispatcher.pc = "tick"
    /\ clock >= dispatcher.next_tick
    /\ dispatcher' = [dispatcher EXCEPT !.pc = "running",
                                        !.next_tick = @ + refresh_period]
    /\ tasks' = [i \in 1..Len(popular_repos) |-> [NoTask EXCEPT !.pc = "queued"]]
    /\ NoCacheWrite
    /\ UNCHANGED <<clock, rx_open, worker, gets>>
    /\ UNCHANGED <<metricsVars, summaryVars, fetchVars>>

\* a refresh_repo that looks in the cache first and skips a cached target
Preload_Start_unless_cached(i) ==
    /\ dispatcher.pc = "running"
    /\ tasks[i].pc = "queued"
    /\ \A j \in 1..(i - 1) : tasks[j].pc # "queued"
    /\ LET limit == ConcurrencyLimit(dispatcher.limit)
       IN  Len(limit) = 1 => Cardinality(InFlight) < limit[1]
    /\ tasks' = [tasks EXCEPT ![i].pc =
                    IF CacheGet(inner, popular_repos[i], clock) = <<>>
                    THEN "fetching" ELSE "finished"]
    /\ NoCacheWrite
    /\ UNCHANGED <<clock, rx_open, worker, gets, dispatcher>>
    /\ UNCHANGED <<metricsVars, summaryVars, fetchVars>>

\* for_each_concurrent takes the next repo_id of the stream and starts
\* querier.refresh_repo(repo_id) when its limit allows one more future
Preload_Start(i) ==
    /\ dispatcher.pc = "running"
    /\ tasks[i].pc = "queued"
    /\ \A j \in 1..(i - 1) : tasks[j].pc # "queued"
    /\ LET limit == ConcurrencyLimit(dispatcher.limit)
       IN  Len(limit) = 1 => Cardinality(InFlight) < limit[1]
    /\ tasks' = [tasks EXCEPT ![i].pc = "fetching"]
    /\ NoCacheWrite
    /\ UNCHANGED <<clock, rx_open, worker, gets, dispatcher>>
    /\ UNCHANGED <<metricsVars, summaryVars, fetchVars>>

\* refresh_repo: fetch_and_calculate_metrics returns Ok(metrics)
Preload_FetchOk(i) ==
    /\ tasks[i].pc = "fetching"
    /\ tasks' = [tasks EXCEPT ![i].pc = "inserting",
                              ![i].metrics = <<Snapshot(popular_repos[i], clock)>>]
    /\ NoCacheWrite
    /\ UNCHANGED <<clock, rx_open, worker, gets, dispatcher>>
    /\ UNCHANGED <<metricsVars, summaryVars, fetchVars>>

\* a failed refresh that ends the whole cycle, as try_for_each_concurrent would
Preload_FetchErr_aborts(i) ==
    /\ tasks[i].pc = "fetching"
    /\ tasks' = [j \in 1..Len(popular_repos) |-> [NoTask EXCEPT !.pc = "finished"]]
    /\ NoCacheWrite
    /\ UNCHANGED <<clock, rx_open, worker, gets, dispatcher>>
    /\ UNCHANGED <<metricsVars, summaryVars, fetchVars>>

\* refresh_repo: fetch_and_calculate_metrics returns Err(e): logged
Preload_FetchErr(i) ==
    /\ tasks[i].pc = "fetching"
    /\ tasks' = [tasks EXCEPT ![i].pc = "finished"]
    /\ NoCacheWrite
    /\ UNCHANGED <<clock, rx_open, worker, gets, dispatcher>>
    /\ UNCHANGED <<metricsVars, summaryVars, fetchVars>>

\* refresh_repo: self.cache.insert(repo_id.clone(), metrics).await
Preload_Insert(i) ==
    /\ tasks[i].pc = "inserting"
    /\ CacheInsert(popular_repos[i], tasks[i].metrics[1])
    /\ tasks' = [tasks EXCEPT ![i] = [NoTask EXCEPT !.pc = "finished"]]
    /\ UNCHANGED <<clock, rx_open, worker, gets, dispatcher>>
    /\ UNCHANGED <<metricsVars, summaryVars, fetchVars>>

\* for_each_concurrent(..).await returns: every future has completed
Preload_Done ==
    /\ dispatcher.pc = "running"
    /\ \A i \in 1..Len(tasks) : tasks[i].pc = "finished"
    /\ dispatcher' = [dispatcher EXCEPT !.pc = "tick"]
    /\ tasks' = [i \in 1..Len(popular_repos) |-> NoTask]
    /\ NoCacheWrite
    /\ UNCHANGED <<clock, rx_open, worker, gets>>
    /\ UNCHANGED <<metricsVars, summaryVars, fetchVars>>

PreloadStep ==
    \/ Preload_Tick
    \/ \E i \in 1..Len(popular_repos) : Preload_Start(i)
    \/ \E i \in 1..Len(popular_repos) : Preload_FetchOk(i)
    \/ \E i \in 1..Len(popular_repos) : Preload_FetchErr(i)
    \/ \E i \in 1..Len(popular_repos) : Preload_Insert(i)
    \/ Preload_Done

\* the callers of MetricsQuerier::get that are followed
PreloadRequests == { "req1" }

PreloadNext ==
    \/ Tick
    \/ \E k \in Keys : ExpireEntry(k)
    \/ \E k \in Keys : EvictEntry(k)
    \/ \E r \in PreloadRequests, k \in Keys : Get_Lookup(r, k)
    \/ \E r \in PreloadRequests : Get_FetchOk(r)
    \/ \E r \in PreloadRequests : Get_FetchErr(r)
    \/ \E r \in PreloadRequests : Get_Insert(r)
    \/ \E r \in PreloadRequests : Get_Return(r)
    \/ PreloadStep

\* the dispatcher task is scheduled whenever it can take a step
SpecPreload == PreloadInit /\ [][PreloadNext]_vars /\ WF_vars(PreloadStep)

(***************************************************************************)
(* fetch_pull_requests and the request handler around it. A String is the  *)
(* sequence of its characters. The upstream lists the pull requests of a   *)
(* repository newest first, in pages of PerPage records (per_page(100) in  *)
(* the code).                                                              *)
(***************************************************************************)
UpperCase == <<"A", "B", "C", "D", "E", "F", "G", "H", "I", "J", "K", "L", "M",
              "N", "O", "P", "Q", "R", "S", "T", "U", "V", "W", "X", "Y", "Z">>
LowerCase == <<"a", "b", "c", "d", "e", "f", "g", "h", "i", "j", "k", "l", "m",
              "n", "o", "p", "q", "r", "s", "t", "u", "v", "w", "x", "y", "z">>

\* char::to_lowercase on the ASCII letters
char_to_lowercase(c) ==
    IF \E i \in 1..Len(UpperCase) : UpperCase[i] = c
    THEN LowerCase[CHOOSE i \in 1..Len(UpperCase) : UpperCase[i] = c]
    ELSE c

\* str::to_lowercase
to_lowercase(s) == [i \in 1..Len(s) |-> char_to_lowercase(s[i])]

\* str::contains(pat): pat occurs as a substring
contains(s, pat) ==
    \E i \in 1..(Len(s) - Len(pat) + 1) : SubSeq(s, i, i + Len(pat) - 1) = pat

rate_limit == <<"r", "a", "t", "e", " ", "l", "i", "m", "i", "t">>
not_found == <<"n", "o", "t", " ", "f", "o", "u", "n", "d">>

\* messages the upstream sends, and one that names both conditions
Messages ==
    { <<"A", "P", "I", " ", "r", "a", "t", "e", " ", "l", "i", "m",
        "i", "t", " ", "e", "x", "c", "e", "e", "d", "e",
        "d">>,
      <<"N", "o", "t", " ", "F", "o", "u", "n", "d">>,
      <<"R", "a", "t", "e", " ", "L", "i", "m", "i", "t", ":", " ",
        "n", "o", "t", " ", "f", "o", "u", "n", "d">>,
      <<"B", "a", "d", " ", "c", "r", "e", "d", "e", "n", "t", "i",
        "a", "l", "s">> }

\* an anyhow::Error: octocrab::Error::GitHub { source, .. } with its
\* source.message, another variant of octocrab::Error, or an error of
\* another type, each with its text
Variants == { "GitHub", "Hyper", "NotOctocrab" }
Errors == { [variant |-> v, message |-> m] : v \in Variants, m \in Messages }

TOO_MANY_REQUESTS == 429
NOT_FOUND == 404
INTERNAL_SERVER_ERROR == 500
OK == 200

\* a mapping that tests for not-found before it tests for the rate limit
get_repo_metrics_not_found_first(e) ==
    IF e.variant = "GitHub" /\ contains(to_lowercase(e.message), not_found)
    THEN NOT_FOUND
    ELSE IF e.variant = "GitHub" /\ contains(to_lowercase(e.message), rate_limit)
         THEN TOO_MANY_REQUESTS
         ELSE INTERNAL_SERVER_ERROR

\* get_repo_metrics, the Err(e) arm: the status of the response
get_repo_metrics_status(e) ==
    IF e.variant = "GitHub"
    THEN IF contains(to_lowercase(e.message), rate_limit)
         THEN TOO_MANY_REQUESTS
         ELSE IF contains(to_lowercase(e.message), not_found)
              THEN NOT_FOUND
              ELSE INTERNAL_SERVER_ERROR
    ELSE INTERNAL_SERVER_ERROR

\* MetricsCache::fetch_and_calculate_metrics, the map_err closure
map_err_status(e) ==
    IF e.variant = "GitHub"
    THEN IF contains(to_lowercase(e.message), rate_limit)
         THEN TOO_MANY_REQUESTS
         ELSE IF contains(to_lowercase(e.message), not_found)
              THEN NOT_FOUND
              ELSE INTERNAL_SERVER_ERROR
    ELSE INTERNAL_SERVER_ERROR

\* CONCURRENCY_LIMIT of the buffered page stream
CONCURRENCY_LIMIT == 15

\* Utc::now() while the request is handled
FetchNow == with_ymd_and_hms(2024, 1, 10, 12, 0, 0)

\* Utc::now() - chrono::Duration::days(days)
CutoffDate(t, days) == t - (days * SecondsPerDay)

\* Option<DateTime<Utc>> of a listed pull request: none, or a second around
\* the cutoff
CreatedChoices(c) == { <<>>, <<c + 1>>, <<c>>, <<c - 1>> }

\* sort(Created), direction(Descending): the creation times that are
\* present do not increase along the listing
NewestFirst(s) ==
    \A i, j \in 1..Len(s) :
        (i < j /\ Len(s[i]) = 1 /\ Len(s[j]) = 1) => s[i][1] >= s[j][1]

CreatedLists(c) ==
    { s \in UNION { [1..n -> CreatedChoices(c)] : n \in 0..MaxRecords } : NewestFirst(s) }

\* octocrab's PullRequest, the fields process_pr_page reads
PullRequest(id, created_at) ==
    [id |-> id, created_at |-> created_at, merged_at |-> <<>>, state |-> <<"Open">>]

Listing(s) == [i \in 1..Len(s) |-> PullRequest(i, s[i])]

Min(a, b) == IF a < b THEN a ELSE b

\* page.items of the page numbered n; a page past the end has no items
PageItems(records, n) ==
    IF (n - 1) * PerPage >= Len(records)
    THEN <<>>
    ELSE SubSeq(records, ((n - 1) * PerPage) + 1, Min(n * PerPage, Len(records)))

\* page.next of the page numbered n is Some(url)
HasNext(records, n) == n * PerPage < Len(records)

\* the closure of process_pr_page on a record that has a creation time
ConvertPr(pr) ==
    [id |-> pr.id, created_at |-> pr.created_at[1], merged_at |-> pr.merged_at,
     state |-> IF Len(pr.merged_at) = 1 THEN "Merged"
               ELSE IF pr.state = <<"Open">> THEN "Open"
               ELSE IF pr.state = <<"Closed">> THEN "Closed"
               ELSE "Unknown"]

\* a conversion that keeps a record without creation time, dated now
process_pr_page_keeps_all(items) ==
    [i \in 1..Len(items) |->
        IF Len(items[i].created_at) = 1 THEN ConvertPr(items[i])
        ELSE ConvertPr([items[i] EXCEPT !.created_at = <<FetchNow>>])]

\* process_pr_page: filter_map drops the records without a creation time
process_pr_page(items) ==
    LET kept == SelectSeq(items, LAMBDA pr : Len(pr.created_at) = 1)
    IN  [i \in 1..Len(kept) |-> ConvertPr(kept[i])]

\* prs.retain(|pr| pr.created_at >= cutoff_date)
retain(list, cutoff_date) == SelectSeq(list, LAMBDA pr : pr.created_at >= cutoff_date)

\* prs.last().is_some_and(|pr| pr.created_at < cutoff_date)
last_is_older(list, cutoff_date) ==
    Len(list) > 0 /\ list[Len(list)].created_at < cutoff_date

\* a stream that starts every page request at once
Buffered_all(max_pages, yielded) == max_pages

\* buffered(CONCURRENCY_LIMIT): the page requests started once `yielded`
\* results have been taken from the stream
Buffered(max_pages, yielded) == Min(max_pages, yielded + CONCURRENCY_LIMIT)

\* the end of fetch_pull_requests: retain, Ok(prs)
Finish(f) ==
    [f EXCEPT !.pc = "done", !.prs = retain(f.prs, f.cutoff_date),
              !.result = <<retain(f.prs, f.cutoff_date)>>]

\* a failed page request that ends the loop as an empty page does
Fail_partial(f, e) == Finish(f)

\* `?` on a failed page request: the call returns Err(e), its locals are dropped
Fail(f, e) == [f EXCEPT !.pc = "failed", !.prs = <<>>, !.error = <<e>>]

\* the upstream answers a page request that is in flight with an error
Upstream_Fails ==
    /\ fetch.pc = "awaiting"
    /\ upstream.fails_at \in 1..fetch.requested
    /\ upstream.failure = <<>>
    /\ \E e \in Errors : upstream' = [upstream EXCEPT !.failure = <<e>>]
    /\ NoCacheWrite
    /\ UNCHANGED <<clock, rx_open, worker, gets, fetch, handler>>
    /\ UNCHANGED <<metricsVars, summaryVars, preloadVars>>

\* the configuration and the upstream a request meets; the cache holds a
\* fresh entry for one repository and none for the other
FetchInit ==
    /\ \E v \in {"querier", "github"}, d \in 1..MaxFetchDays,
          m \in (0..MaxPages) \cup {CONCURRENCY_LIMIT + 1} :
         /\ fetch = [IdleFetch EXCEPT !.version = v, !.days = d, !.max_pages = m]
         /\ \E s \in CreatedLists(CutoffDate(FetchNow, d)), p \in 0..(MaxPages + 1) :
              upstream = [records |-> Listing(s), fails_at |-> p, failure |-> <<>>]
    /\ handler = IdleHandler
    /\ clock = 0
    /\ inner = [k \in Keys |-> IF k = "facebook/react"
                                THEN <<[value |-> Snapshot(k, 0), last_modified |-> 0]>>
                                ELSE <<>>]
    /\ inserted_at = [k \in Keys |-> IF k = "facebook/react" THEN 0 ELSE 0 - 1]
    /\ chan = <<>>
    /\ rx_open = TRUE
    /\ worker = IdleWorker
    /\ gets = [r \in Requests |-> IdleGet]
    /\ notes = <<>>
    /\ PreloadIdle
    /\ MetricsIdle
    /\ SummaryIdle

\* get_repo_metrics calls get: a cached value is returned at once, a miss
\* goes on to fetch_and_calculate_metrics
Handler_Get(k) ==
    /\ handler.pc = "idle"
    /\ LET found == CacheGet(inner, k, clock)
       IN  IF Len(found) = 1
           THEN /\ handler' = [handler EXCEPT !.pc = "answered", !.key = <<k>>,
                                              !.status = OK]
                /\ UNCHANGED fetch
           ELSE /\ handler' = [handler EXCEPT !.pc = "fetching", !.key = <<k>>]
                /\ fetch' = [fetch EXCEPT !.pc = "start",
                                !.cutoff_date = CutoffDate(FetchNow, fetch.days)]
    /\ NoCacheWrite
    /\ UNCHANGED <<clock, rx_open, worker, gets, upstream>>
    /\ UNCHANGED <<metricsVars, summaryVars, preloadVars>>

\* querier.rs: the first poll of page_stream starts the buffered requests;
\* a stream over no pages ends at once
Querier_Start ==
    /\ fetch.version = "querier"
    /\ fetch.pc = "start"
    /\ LET f == [fetch EXCEPT !.requested = Buffered(fetch.max_pages, 0)]
       IN  fetch' = IF fetch.max_pages = 0 THEN Finish(f)
                    ELSE [f EXCEPT !.pc = "awaiting"]
    /\ NoCacheWrite
    /\ UNCHANGED <<clock, rx_open, worker, gets, upstream, handler>>
    /\ UNCHANGED <<metricsVars, summaryVars, preloadVars>>

\* querier.rs: page_stream.next() yields the result of the next page, the
\* loop body runs, and the stream is polled again
Querier_Page ==
    /\ fetch.version = "querier"
    /\ fetch.pc = "awaiting"
    /\ LET n    == fetch.processed + 1
           page == PageItems(upstream.records, n)
           all  == fetch.prs \o process_pr_page(page)
           f    == [fetch EXCEPT !.taken = n]
       IN  IF upstream.fails_at = n
           THEN /\ Len(upstream.failure) = 1
                /\ fetch' = Fail(f, upstream.failure[1])
           ELSE IF Len(page) = 0
           THEN fetch' = Finish([f EXCEPT !.processed = n,
                                          !.hit_page_limit = FALSE])
           ELSE IF last_is_older(all, fetch.cutoff_date)
           THEN fetch' = Finish([f EXCEPT !.processed = n, !.prs = all,
                                          !.hit_page_limit = FALSE,
                                          !.met_cutoff = n])
           ELSE IF n = fetch.max_pages
           THEN fetch' = Finish([f EXCEPT !.processed = n, !.prs = all])
           ELSE fetch' = [f EXCEPT !.processed = n, !.prs = all,
                                   !.requested = Buffered(fetch.max_pages, n)]
    /\ NoCacheWrite
    /\ UNCHANGED <<clock, rx_open, worker, gets, upstream, handler>>
    /\ UNCHANGED <<metricsVars, summaryVars, preloadVars>>

\* github.rs: the request of the first page is sent before the loop
GitHub_Start ==
    /\ fetch.version = "github"
    /\ fetch.pc = "start"
    /\ fetch' = [fetch EXCEPT !.pc = "awaiting", !.requested = 1]
    /\ NoCacheWrite
    /\ UNCHANGED <<clock, rx_open, worker, gets, upstream, handler>>
    /\ UNCHANGED <<metricsVars, summaryVars, preloadVars>>

\* github.rs: the awaited page arrives and becomes current_page; the next
\* iteration of `for _ in 1..=max_pages` processes it, up to its get_page
GitHub_Page ==
    /\ fetch.version = "github"
    /\ fetch.pc = "awaiting"
    /\ LET n    == fetch.requested
           page == PageItems(upstream.records, n)
           all  == fetch.prs \o process_pr_page(page)
           f    == [fetch EXCEPT !.taken = n]
       IN  IF upstream.fails_at = n
           THEN /\ Len(upstream.failure) = 1
                /\ fetch' = Fail(f, upstream.failure[1])
           ELSE IF n > fetch.max_pages
           THEN fetch' = Finish(f)
           ELSE IF last_is_older(all, fetch.cutoff_date)
           THEN fetch' = Finish([f EXCEPT !.processed = n, !.prs = all,
                                          !.met_cutoff = n])
           ELSE IF HasNext(upstream.records, n)
           THEN fetch' = [f EXCEPT !.processed = n, !.prs = all,
                                   !.requested = n + 1]
           ELSE fetch' = Finish([f EXCEPT !.processed = n, !.prs = all])
    /\ NoCacheWrite
    /\ UNCHANGED <<clock, rx_open, worker, gets, upstream, handler>>
    /\ UNCHANGED <<metricsVars, summaryVars, preloadVars>>

\* fetch_and_calculate_metrics after Ok(prs): calculate_metrics
Handler_Calculate ==
    /\ handler.pc = "fetching"
    /\ fetch.pc = "done"
    /\ handler' = [handler EXCEPT !.pc = "inserting",
            !.metrics = <<calculate_metrics(fetch.result[1], MaxDisplayDays,
                                            MaxWindowDays, FetchNow)>>]
    /\ NoCacheWrite
    /\ UNCHANGED <<clock, rx_open, worker, gets, upstream, fetch>>
    /\ UNCHANGED <<metricsVars, summaryVars, preloadVars>>

\* get inserts the metrics and the handler answers with them
Handler_Insert ==
    /\ handler.pc = "inserting"
    /\ CacheInsert(handler.key[1], Snapshot(handler.key[1], clock))
    /\ handler' = [handler EXCEPT !.pc = "answered", !.status = OK]
    /\ UNCHANGED <<clock, rx_open, worker, gets, upstream, fetch>>
    /\ UNCHANGED <<metricsVars, summaryVars, preloadVars>>

\* an Err(e) of fetch_pull_requests passes through `?` to the handler, which
\* answers with the status it maps e to
Handler_Err ==
    /\ handler.pc = "fetching"
    /\ fetch.pc = "failed"
    /\ handler' = [handler EXCEPT !.pc = "answered",
            !.status = IF fetch.version = "querier"
                        THEN get_repo_metrics_status(fetch.error[1])
                        ELSE map_err_status(fetch.error[1])]
    /\ NoCacheWrite
    /\ UNCHANGED <<clock, rx_open, worker, gets, upstream, fetch>>
    /\ UNCHANGED <<metricsVars, summaryVars, preloadVars>>

FetchNext ==
    \/ \E k \in Keys : Handler_Get(k)
    \/ Upstream_Fails
    \/ Querier_Start
    \/ Querier_Page
    \/ GitHub_Start
    \/ GitHub_Page
    \/ Handler_Calculate
    \/ Handler_Insert
    \/ Handler_Err

SpecFetch == FetchInit /\ [][FetchNext]_vars

(***************************************************************************)
(* Claims about the metrics engine.                                        *)
(***************************************************************************)
\* C1: calculate_metrics returns exactly D+1 points, one per calendar day from
\* (day of now) - D to (day of now), consecutive points one day apart, in
\* increasing date order, the last one dated the day of now.
C1_SeriesDays ==
    mpc = "done" =>
        LET ts == response.time_series
            n  == Len(ts)
        IN  /\ n = days_to_display + 1
            /\ \A j \in 1..n :
                 ts[j].date = Civil(date_naive(now) - days_to_display + (j - 1))
            /\ \A j \in 1..(n - 1) :
                 DaysFromCivil(ts[j + 1].date) = DaysFromCivil(ts[j].date) + 1
            /\ ts[n].date = Civil(date_naive(now))

\* a three-point series that crosses a month boundary, computed from records
C1_Witness ==
    /\ mpc = "done"
    /\ days_to_display = 2
    /\ Len(prs) >= 1
    /\ Len(response.time_series) = 3
    /\ response.time_series[1].date[2] # response.time_series[3].date[2]

\* the naive per-point filter counts of the records
NaiveOpened(records, d, w) ==
    Cardinality({ n \in 1..Len(records) :
        d - w < date_naive(records[n].created_at)
          /\ date_naive(records[n].created_at) <= d })

NaiveMerged(records, d, w) ==
    Cardinality({ n \in 1..Len(records) :
        /\ Len(records[n].merged_at) = 1
        /\ d - w < date_naive(records[n].merged_at[1])
        /\ date_naive(records[n].merged_at[1]) <= d })

\* C2: at every output point the prefix-sum counts equal the naive filter
\* counts over the window (d - W, d], merges counted by merge day alone.
C2_PrefixEqualsNaive ==
    mpc = "done" =>
        \A j \in 1..Len(response.time_series) :
            LET pt == response.time_series[j]
                d  == DaysFromCivil(pt.date)
            IN  /\ pt.opened = NaiveOpened(prs, d, window_size)
                /\ pt.merged = NaiveMerged(prs, d, window_size)

\* a point that counts a merge of a record created before its window, while
\* another record lies outside the window altogether
C2_Witness ==
    /\ mpc = "done"
    /\ window_size >= 1
    /\ \E j \in 1..Len(response.time_series) :
         LET pt == response.time_series[j]
             d  == DaysFromCivil(pt.date)
         IN  /\ pt.merged >= 1
             /\ pt.opened >= 1
             /\ pt.opened < Len(prs)
             /\ \E n \in 1..Len(prs) :
                  /\ Len(prs[n].merged_at) = 1
                  /\ date_naive(prs[n].created_at) <= d - window_size
                  /\ date_naive(prs[n].merged_at[1]) > d - window_size
                  /\ date_naive(prs[n].merged_at[1]) <= d

\* merged / opened * 100 rounded to the nearest integer, halves away from zero
RoundedPercent(merged, opened) == (200 * merged + opened) \div (2 * opened)

\* C9: mergeRate is round(merged / opened * 100), halves rounded away from
\* zero, of the last point when its opened > 0, and 0 when its opened is 0.
C9_MergeRateRounded ==
    (spc = "done" /\ Len(series_in) > 0) =>
        LET latest == series_in[Len(series_in)]
        IN  summary_out.merge_rate =
              IF latest.opened > 0
              THEN RoundedPercent(latest.merged, latest.opened)
              ELSE 0

\* C10: the summary's mergeRate is a percentage between 0 and 100.
C10_MergeRateRange ==
    mpc = "done" =>
        response.summary.merge_rate >= 0 /\ response.summary.merge_rate <= 100

\* C11: for an empty record set every point has opened = merged = spread = 0
\* and the summary has currentOpened = 0, mergeRate = 0, isWidening = false.
C11_EmptyRecords ==
    (mpc = "done" /\ prs = <<>>) =>
        /\ \A j \in 1..Len(response.time_series) :
             LET pt == response.time_series[j]
             IN  pt.opened = 0 /\ pt.merged = 0 /\ pt.spread = 0
        /\ response.summary.current_opened = 0
        /\ response.summary.merge_rate = 0
        /\ response.summary.is_widening = FALSE

\* no records, D = 1: two points, as in test_calculate_metrics_empty
C11_Witness ==
    /\ mpc = "done"
    /\ prs = <<>>
    /\ days_to_display = 1
    /\ window_size = MaxWindowDays
    /\ Len(response.time_series) = 2

\* C12: isWidening is true exactly when the series has two points or more and
\* the last spread is greater than the one before it; false for a series of
\* one point and for the empty series.
C12_IsWidening ==
    spc = "done" =>
        LET n == Len(series_in)
        IN  /\ summary_out.is_widening =
                  (n >= 2 /\ series_in[n].spread > series_in[n - 1].spread)
            /\ n < 2 => summary_out.is_widening = FALSE

\* two points with the same spread: not widening
C12_Witness ==
    /\ spc = "done"
    /\ Len(series_in) = 2
    /\ series_in[2].spread = series_in[1].spread
    /\ summary_out.is_widening = FALSE

\* C13: the two records of the scenario, now = 2024-01-10T12:00Z, D = 0 and
\* W = 30 give one point {2024-01-10, 2, 1, 1} and the summary
\* {2, 1, 1, mergeRate 50, not widening}.
C13_Scenario ==
    (/\ mpc = "done"
     /\ days_to_display = 0 /\ window_size = 30
     /\ now = with_ymd_and_hms(2024, 1, 10, 12, 0, 0)
     /\ Len(prs) = 2 /\ { prs[1], prs[2] } = { TestPr1, TestPr2 }) =>
        /\ response.time_series =
               << [date |-> <<2024, 1, 10>>, opened |-> 2, merged |-> 1, spread |-> 1] >>
        /\ response.summary =
               [current_opened |-> 2, current_merged |-> 1, current_spread |-> 1,
                merge_rate |-> 50, is_widening |-> FALSE]

\* the call of the scenario has returned
C13_Witness ==
    /\ mpc = "done"
    /\ days_to_display = 0 /\ window_size = 30
    /\ prs = <<TestPr1, TestPr2>>
    /\ Len(response.time_series) = 1

\* C14: calculate_metrics is a pure, total function: the same records, D, W
\* and now always give the same snapshot, it touches no shared state, and it
\* fails for no record set and no non-negative D and W.
C14_PureAndTotal ==
    /\ mpc # "panicked"
    /\ mpc = "done" =>
          response = calculate_metrics(prs, days_to_display, window_size, now)
    /\ mpc # "idle" => (inner = [k \in Keys |-> <<>>] /\ chan = <<>>)

\* C15: rolling-window counts are clamped at zero: for every integer W, also
\* zero and negative, every point's opened and merged are non-negative, and
\* for W <= 0 they are all 0.
C15_CountsClamped ==
    mpc = "done" =>
        \A j \in 1..Len(response.time_series) :
            LET pt == response.time_series[j]
            IN  /\ pt.opened >= 0 /\ pt.merged >= 0
                /\ window_size <= 0 => (pt.opened = 0 /\ pt.merged = 0)

\* a negative window over a timeline that holds a record
C15_Witness ==
    /\ mpc = "done"
    /\ window_size < 0
    /\ \E n \in 1..Len(prs) :
         /\ date_naive(prs[n].created_at) >= start_date(now, days_to_display, window_size)
         /\ date_naive(prs[n].created_at) < latest_date(now)

\* C16: every point has spread = opened - merged, negative when more was
\* merged than opened, and the summary's currentOpened, currentMerged and
\* currentSpread are those of the last point.
C16_Spread ==
    mpc = "done" =>
        LET ts == response.time_series
        IN  /\ \A j \in 1..Len(ts) : ts[j].spread = ts[j].opened - ts[j].merged
            /\ Len(ts) > 0 =>
                  /\ response.summary.current_opened = ts[Len(ts)].opened
                  /\ response.summary.current_merged = ts[Len(ts)].merged
                  /\ response.summary.current_spread = ts[Len(ts)].spread

\* the last point has a negative spread
C16_Witness ==
    /\ mpc = "done"
    /\ Len(response.time_series) > 0
    /\ response.time_series[Len(response.time_series)].spread < 0
    /\ response.summary.current_spread < 0

(***************************************************************************)
(* Claims about the cache, its expiry channel and the refresh task.        *)
(***************************************************************************)
\* request r completes its insert in this step
GetInserts(r) == gets[r].pc = "inserting" /\ gets'[r].pc = "done"

\* the refresh task completes its insert in this step
WorkerInserts == worker.pc = "inserting" /\ worker'.pc = "recv"

\* the refresh task takes a key from the channel in this step
WorkerReceives == worker.pc = "recv" /\ worker'.pc = "fetching"

\* C3: insert(k, v) followed immediately by get(k) returns v; and once the
\* TTL has elapsed since the last insert for k, get(k) returns absent.
C3_InsertThenGet ==
    /\ [][ /\ \A r \in Requests : GetInserts(r) =>
                CacheGet(inner', gets[r].key[1], clock') = gets[r].metrics
           /\ WorkerInserts =>
                CacheGet(inner', worker.key[1], clock') = worker.metrics ]_vars
    /\ [](\A k \in Keys :
            (inserted_at[k] >= 0 /\ clock >= inserted_at[k] + cache_ttl)
                => CacheGet(inner, k, clock) = <<>>)

\* an entry written TTL ago is still stored, and get no longer returns it
C3_Witness ==
    \E k \in Keys :
        /\ inserted_at[k] >= 0
        /\ clock >= inserted_at[k] + cache_ttl
        /\ Len(inner[k]) = 1

\* C4: a read-through get that hits returns the cached snapshot without an
\* upstream call and without changing the cache; one that misses and whose
\* fetch succeeds calls the upstream once, inserts the snapshot it computed
\* under its key and returns that snapshot.
C4_ReadThrough ==
    /\ [][ \A r \in Requests :
             /\ (gets[r].pc = "idle" /\ gets'[r].pc = "done") =>
                  /\ gets'[r].result = CacheGet(inner, gets'[r].key[1], clock)
                  /\ Len(gets'[r].result) = 1
                  /\ gets'[r].fetches = 0
                  /\ inner' = inner /\ chan' = chan
             /\ (gets[r].pc = "idle" /\ gets'[r].pc = "fetching") =>
                  /\ CacheGet(inner, gets'[r].key[1], clock) = <<>>
                  /\ inner' = inner
             /\ GetInserts(r) =>
                  /\ gets[r].fetches = 1 /\ gets'[r].fetches = 1
                  /\ gets[r].metrics[1].key = gets[r].key[1]
                  /\ CacheGet(inner', gets[r].key[1], clock') = gets[r].metrics
                  /\ gets'[r].result = gets[r].metrics ]_vars
    /\ [](\A r \in Requests :
            gets[r].pc = "done" =>
                /\ Len(gets[r].result) = 1
                /\ gets[r].fetches = IF gets[r].hit THEN 0 ELSE 1)

\* one request has returned from a hit and another from a miss
C4_Witness ==
    \E r1, r2 \in Requests :
        /\ gets[r1].pc = "done" /\ gets[r1].hit
        /\ gets[r2].pc = "done" /\ ~gets[r2].hit
        /\ gets[r2].result = gets[r2].metrics

\* how often this step calls the listener for k with a cause among causes
Removals(k, causes) ==
    Cardinality({ i \in 1..Len(notes') :
                    notes'[i].key = k /\ notes'[i].cause \in causes })

\* this step removes or replaces the entry of k
Removed(k) == Len(inner[k]) = 1 /\ inner'[k] # inner[k]

CountIn(ch, k) == Cardinality({ i \in 1..Len(ch) : ch[i] = k })

\* the channel as the step found it, less the key the refresh task takes
ChanLeft == IF WorkerReceives THEN Tail(chan) ELSE chan

\* C5: every removal by TTL expiry puts the entry's key onto the channel
\* exactly once while the channel is open, and every key on the channel is
\* eventually received by the refresh task.
C5_ExpiryNotifies ==
    /\ [][ /\ \A k \in Keys :
                (Removed(k) /\ Removals(k, {"Size"}) = 0) =>
                    Removals(k, {"Expired"}) =
                        (IF IsExpired(inner[k][1], clock) THEN 1 ELSE 0)
           /\ rx_open =>
                /\ \A k \in Keys :
                     CountIn(chan', k) =
                         CountIn(ChanLeft, k) + Removals(k, {"Expired"})
                /\ SubSeq(chan', 1, Len(ChanLeft)) = ChanLeft ]_vars
    /\ \A k \in Keys :
         (CountIn(chan, k) > 0) ~>
             (~rx_open \/ (worker.pc = "fetching" /\ worker.key = <<k>>))

\* the refresh task holds a key that expired, the channel still open
C5_Witness ==
    /\ rx_open
    /\ worker.pc = "fetching"
    /\ Len(chan) > 0

\* C6: a removal for a cause other than TTL expiry (capacity eviction, or
\* replacement by a new insert) puts no key onto the channel and triggers no
\* refresh: the refresh task fetches only keys whose entries expired.
C6_OnlyExpiryNotifies ==
    [][ /\ \A k \in Keys :
             (Removed(k) /\ Removals(k, {"Expired"}) = 0) =>
                 Removals(k, {"Size", "Replaced"}) = 1
        /\ (\A k \in Keys : Removals(k, {"Expired"}) = 0) =>
               (chan' = ChanLeft /\ (~WorkerReceives => worker'.key = worker.key))
        /\ (\E k \in Keys : Removals(k, {"Size", "Replaced"}) > 0) =>
               (chan' = chan /\ worker'.key = worker.key)
        /\ WorkerReceives => worker'.key = <<Head(chan)>> ]_vars

\* the last step evicted or replaced an entry, and no key was ever notified
C6_Witness ==
    /\ \E i \in 1..Len(notes) : notes[i].cause \in {"Size", "Replaced"}
    /\ chan = <<>>
    /\ worker.key = <<>>

\* the refresh task's fetch fails in this step
WorkerFetchFails == worker.pc = "fetching" /\ worker'.pc = "recv"

\* C7: the refresh task re-inserts a freshly computed snapshot for the key it
\* received, with a fresh TTL, exactly when its fetch succeeded; a failed
\* fetch leaves the cache unchanged, and the key stays absent until a later
\* read-through inserts it.
C7_RefreshOnSuccessOnly ==
    [][ /\ (worker.pc = "fetching" /\ worker'.pc = "inserting") =>
             /\ worker'.metrics = <<Snapshot(worker.key[1], clock)>>
             /\ inner' = inner
        /\ WorkerInserts =>
             inner'[worker.key[1]] =
                 <<[value |-> worker.metrics[1], last_modified |-> clock]>>
        /\ WorkerFetchFails => (inner' = inner /\ chan' = chan)
        /\ \A k \in Keys :
             (Len(inner[k]) = 0 /\ Len(inner'[k]) = 1) =>
                 \/ WorkerInserts /\ worker.key = <<k>>
                 \/ \E r \in Requests : GetInserts(r) /\ gets[r].key = <<k>> ]_vars

\* the refresh of an expired key has failed, and the key is absent
C7_Witness ==
    /\ worker.pc = "recv"
    /\ worker.fetches = 1
    /\ worker.metrics = <<>>
    /\ Len(worker.key) = 1
    /\ Len(inner[worker.key[1]]) = 0

\* C8: single attempt: each key the refresh task receives causes exactly one
\* upstream fetch by it, whether the fetch succeeds or fails.
C8_SingleAttempt ==
    /\ (worker.pc = "fetching" => worker.fetches = 0)
    /\ (worker.pc = "inserting" => worker.fetches = 1)
    /\ ((worker.pc = "recv" /\ Len(worker.key) = 1) => worker.fetches = 1)

\* a refresh has failed while another expired key waits on the channel
C8_Witness ==
    /\ worker.pc = "recv"
    /\ worker.fetches = 1
    /\ worker.metrics = <<>>
    /\ Len(chan) > 0

\* C19: no per-key mutual exclusion: of two interleaved gets for the same
\* absent key each makes its own fetch and its own insert and returns the
\* snapshot it computed itself, and the cache holds what the last insert wrote.
C19_LastInsertWins ==
    /\ [][ \A r \in Requests :
             /\ (gets[r].pc = "idle" /\ gets'[r].pc # "idle") =>
                  (gets'[r].pc = "fetching" <=>
                       CacheGet(inner, gets'[r].key[1], clock) = <<>>)
             /\ GetInserts(r) =>
                  /\ inner'[gets[r].key[1]] =
                       <<[value |-> gets[r].metrics[1], last_modified |-> clock]>>
                  /\ gets'[r].result = gets[r].metrics
                  /\ \A o \in Requests \ {r} : gets'[o] = gets[o] ]_vars
    /\ [](\A r \in Requests :
            /\ gets[r].pc = "inserting" =>
                 (gets[r].fetches = 1 /\ gets[r].metrics[1].key = gets[r].key[1])
            /\ (gets[r].pc = "done" /\ ~gets[r].hit) =>
                 (gets[r].fetches = 1 /\ gets[r].result = gets[r].metrics))

\* two gets missed on the same key, each fetched and inserted, and the cache
\* holds the older snapshot because its insert came last
C19_Witness ==
    \E r1, r2 \in Requests :
        /\ gets[r1].pc = "done" /\ ~gets[r1].hit
        /\ gets[r2].pc = "done" /\ ~gets[r2].hit
        /\ gets[r1].key = gets[r2].key
        /\ gets[r1].result[1].computed_at < gets[r2].result[1].computed_at
        /\ Len(inner[gets[r1].key[1]]) = 1
        /\ inner[gets[r1].key[1]][1].value = gets[r1].result[1]

\* request r learns in this step that its fetch failed
GetFails(r) == gets[r].pc = "fetching" /\ gets'[r].pc = "failed"

\* C20: when the fetch of a read-through miss fails, get returns the failure
\* and leaves the cache unchanged: nothing is inserted, no failure is cached,
\* and a later get for the key misses again and repeats the fetch.
C20_FailureNotCached ==
    /\ [][ \A r \in Requests :
             /\ GetFails(r) =>
                  /\ inner' = inner /\ chan' = chan
                  /\ gets'[r].result = <<>>
             /\ (gets[r].pc = "idle" /\ gets'[r].pc # "idle"
                   /\ CacheGet(inner, gets'[r].key[1], clock) = <<>>) =>
                  (gets'[r].pc = "fetching" /\ gets'[r].fetches = 0) ]_vars
    /\ [](\A r \in Requests :
            gets[r].pc = "failed" =>
                (gets[r].result = <<>> /\ gets[r].metrics = <<>> /\ gets[r].fetches = 1))

\* one get has failed, the key is absent, and the next get for it is fetching
C20_Witness ==
    \E r1, r2 \in Requests :
        /\ gets[r1].pc = "failed"
        /\ Len(inner[gets[r1].key[1]]) = 0
        /\ inserted_at[gets[r1].key[1]] < 0
        /\ gets[r2].pc = "fetching"
        /\ gets[r2].key = gets[r1].key

\* C17: during a preload cycle at most N refreshes of that cycle are in
\* flight at any moment, N being the configured concurrency limit, whatever
\* its value.
C17_BoundedFanOut ==
    dispatcher.pc # "off" => Cardinality(InFlight) <= dispatcher.limit

\* C18: with the dispatcher running from startup and then every half TTL, a
\* get for a preload target never misses the cache and never fetches upstream
\* on the request path.
C18_TargetsStayWarm ==
    dispatcher.pc # "off" =>
        \A r \in Requests :
            (Len(gets[r].key) = 1
               /\ \E i \in 1..Len(popular_repos) : popular_repos[i] = gets[r].key[1]) =>
                /\ gets[r].pc \in {"idle", "done"}
                /\ gets[r].fetches = 0
                /\ gets[r].pc = "done" => gets[r].hit

(***************************************************************************)
(* Claims about the request handler and fetch_pull_requests.               *)
(***************************************************************************)
\* the message of a GitHub error names the condition, in any letter case
Indicates(e, words) ==
    e.variant = "GitHub" /\ contains(to_lowercase(e.message), words)

Failed == handler.pc = "answered" /\ Len(fetch.error) = 1

\* C21: a failed read-through is answered with exactly one status: 429 when the
\* upstream error's message indicates a rate limit (also when it indicates
\* not-found as well), otherwise 404 when it indicates not-found, and 500 for
\* every other failure, among them the errors that are not GitHub errors.
C21_StatusMapping ==
    Failed =>
        LET e == fetch.error[1]
        IN  /\ handler.status \in {429, 404, 500}
            /\ Indicates(e, rate_limit) => handler.status = 429
            /\ (~Indicates(e, rate_limit) /\ Indicates(e, not_found)) =>
                    handler.status = 404
            /\ (~Indicates(e, rate_limit) /\ ~Indicates(e, not_found)) =>
                    handler.status = 500
            /\ e.variant # "GitHub" => handler.status = 500

\* a GitHub error whose message names both conditions was answered with 429
C21_Witness ==
    /\ Failed
    /\ Indicates(fetch.error[1], rate_limit)
    /\ Indicates(fetch.error[1], not_found)
    /\ handler.status = 429

\* C27: one call of fetch_pull_requests issues at most max_pages page
\* requests, for every max_pages >= 0 and every upstream content.
C27_MaxPagesLimit == fetch.requested <= fetch.max_pages

\* C28 as claimed: once a processed page ends with a record created before
\* the cutoff, no page after that one is requested.
C28_NoPageAfterCutoff ==
    fetch.met_cutoff > 0 => fetch.requested <= fetch.met_cutoff

\* C28, amended: once a processed page ends with a record created before the
\* cutoff, no further page request is issued and no further page is
\* processed; the requests already issued reach at most CONCURRENCY_LIMIT - 1
\* pages past that page in the buffered stream, and none in the sequential loop.
C28_NoRequestAfterCutoff ==
    /\ [](fetch.met_cutoff > 0 =>
            /\ fetch.pc = "done"
            /\ fetch.processed = fetch.met_cutoff
            /\ fetch.requested <= (fetch.met_cutoff - 1) + CONCURRENCY_LIMIT
            /\ fetch.version = "github" => fetch.requested = fetch.met_cutoff)
    /\ [][fetch.met_cutoff > 0 =>
            /\ fetch'.requested = fetch.requested
            /\ fetch'.processed = fetch.processed]_vars

\* the buffered stream met the cutoff on its first page with the requests of
\* the next fourteen pages issued, and a sixteenth page left unrequested
C28_Witness ==
    /\ fetch.version = "querier"
    /\ fetch.met_cutoff = 1
    /\ fetch.requested = CONCURRENCY_LIMIT
    /\ fetch.max_pages > CONCURRENCY_LIMIT
    /\ handler.pc = "answered"

\* the records the upstream lists on the pages the loop processed
ProcessedRecords ==
    SubSeq(upstream.records, 1,
           Min(fetch.processed * PerPage, Len(upstream.records)))

WantedRecords ==
    SelectSeq(ProcessedRecords,
              LAMBDA pr : /\ Len(pr.created_at) = 1
                          /\ pr.created_at[1] >= FetchNow - (fetch.days * SecondsPerDay))

\* C29: a successful fetch_pull_requests returns exactly the records of the
\* processed pages that have a creation time at or after the cutoff, in the
\* order of the upstream, each one once; none is older than the cutoff and the
\* records without a creation time are left out.
C29_ExactRecords ==
    fetch.pc = "done" =>
        LET got == fetch.result[1]
        IN  /\ Len(got) = Len(WantedRecords)
            /\ \A i \in 1..Len(got) :
                    /\ got[i].id = WantedRecords[i].id
                    /\ got[i].created_at = WantedRecords[i].created_at[1]
                    /\ got[i].created_at >= FetchNow - (fetch.days * SecondsPerDay)
            /\ \A i, j \in 1..Len(got) : i # j => got[i].id # got[j].id

\* a fetch over two pages returned some records and left out one without a
\* creation time and one older than the cutoff
C29_Witness ==
    /\ fetch.pc = "done"
    /\ fetch.processed >= 2
    /\ Len(fetch.result[1]) >= 1
    /\ \E i \in 1..Len(ProcessedRecords) : ProcessedRecords[i].created_at = <<>>
    /\ \E i \in 1..Len(ProcessedRecords) :
            /\ Len(ProcessedRecords[i].created_at) = 1
            /\ ProcessedRecords[i].created_at[1] < fetch.cutoff_date

\* C30 as claimed: if any page request of a fetch fails, the whole call fails.
C30_AnyFailureFails == Len(upstream.failure) = 1 => fetch.pc # "done"

\* C30, amended: if a page request whose response the fetch takes fails, the
\* whole call fails: the records of the pages already received are dropped,
\* no snapshot is computed, nothing is inserted into the cache for the key and
\* the handler answers with an error status. (A failed request of the buffered
\* stream whose response the loop never takes does not fail the call.)
C30_TakenFailureFails ==
    /\ [](/\ fetch.pc = "done" => upstream.fails_at \notin 1..fetch.taken
          /\ (fetch.pc \in {"awaiting", "failed"} /\ upstream.fails_at \in 1..fetch.taken)
                => fetch.pc = "failed"
          /\ fetch.pc = "failed" =>
                /\ fetch.prs = <<>>
                /\ fetch.result = <<>>
                /\ handler.metrics = <<>>
                /\ handler.pc \in {"fetching", "answered"}
                /\ handler.status \in {0, 429, 404, 500})
    /\ [][fetch.pc = "failed" => inner' = inner /\ inserted_at' = inserted_at]_vars

\* the second page request failed after a first page of records had been
\* received, and the handler answered with an error
C30_Witness ==
    /\ fetch.pc = "failed"
    /\ upstream.fails_at = 2
    /\ fetch.taken = 2
    /\ fetch.processed = 1
    /\ Len(PageItems(upstream.records, 1)) > 0
    /\ handler.pc = "answered"
    /\ inner[handler.key[1]] = <<>>

(***************************************************************************)
(* Claims about failures in the refresh task and in the preload, about the *)
(* capacity, and about the closed channel.                                 *)
(***************************************************************************)
\* the refresh task is back at rx.recv() after a fetch that failed
LastRefreshFailed ==
    worker.pc = "recv" /\ worker.fetches = 1 /\ worker.metrics = <<>>

\* C22: a failed refresh of one key never stops the refresh task: the task
\* goes back to receiving with the channel as it was, and from then on every
\* key on the channel is eventually received and given its fetch attempt
\* (unless the runtime drops the task).
C22_WorkerSurvivesFailure ==
    /\ [][(worker.pc = "fetching" /\ worker'.pc \notin {"fetching", "inserting"}
                /\ rx_open') =>
            /\ worker'.pc = "recv"
            /\ worker'.fetches = 1
            /\ chan' = chan ]_vars
    /\ \A k \in Keys :
         [](LastRefreshFailed =>
              []((CountIn(chan, k) > 0) =>
                    <>(~rx_open \/ (worker.pc = "fetching" /\ worker.key = <<k>>))))

\* the refresh of one key has failed while the other key waits on the open
\* channel
C22_Witness ==
    /\ LastRefreshFailed
    /\ rx_open
    /\ \E k \in Keys : CountIn(chan, k) > 0 /\ worker.key # <<k>>

\* the refresh_repo future of target i moves on in this step
TaskMoves(i) == tasks'[i].pc # tasks[i].pc

\* the fetch of target i fails in this step
TaskFails(i) == tasks[i].pc = "fetching" /\ tasks'[i].pc = "finished"

\* C23: in every preload cycle each target gets exactly one fetch attempt,
\* whether or not the attempts for other targets fail; a failed attempt ends
\* that target's refresh, leaves the cache and the other targets' refreshes
\* as they are, and the cycle runs to completion, which it reaches only
\* with every target's refresh finished.
C23_PreloadSwallowsErrors ==
    /\ [][\A i \in 1..Len(popular_repos) :
            /\ (tasks[i].pc = "none" /\ TaskMoves(i)) => tasks'[i].pc = "queued"
            /\ (tasks[i].pc = "queued" /\ TaskMoves(i)) => tasks'[i].pc = "fetching"
            /\ (tasks[i].pc = "fetching" /\ TaskMoves(i)) =>
                    tasks'[i].pc \in {"inserting", "finished"}
            /\ (tasks[i].pc = "inserting" /\ TaskMoves(i)) =>
                    tasks'[i].pc = "finished"
            /\ (tasks[i].pc = "finished" /\ TaskMoves(i)) =>
                    /\ tasks'[i].pc = "none"
                    /\ \A j \in 1..Len(popular_repos) : tasks[j].pc = "finished"
            /\ TaskFails(i) =>
                    /\ inner' = inner
                    /\ dispatcher' = dispatcher
                    /\ \A j \in 1..Len(popular_repos) :
                            j # i => tasks'[j] = tasks[j] ]_vars
    /\ (dispatcher.pc = "running") ~>
            (dispatcher.pc = "tick" /\ \A i \in 1..Len(popular_repos) : tasks[i].pc = "none")

\* in the first cycle the refresh of the first target has failed, its key
\* was never inserted, and the second target is being fetched
C23_Witness ==
    /\ dispatcher.pc = "running"
    /\ tasks[1].pc = "finished"
    /\ inserted_at[popular_repos[1]] < 0
    /\ tasks[2].pc = "fetching"

\* the number of entries the cache holds
EntryCount(c) == Cardinality(Present(c))

\* this step evicts an entry for the capacity
EvictsForSize == \E i \in 1..Len(notes') : notes'[i].cause = "Size"

Looks(r, k) == gets[r].pc = "idle" /\ gets'[r].pc # "idle" /\ gets'[r].key = <<k>>

\* C25: when the channel is closed, the send of an expired key fails and the
\* key is dropped: nothing is put onto the channel then or later, the expired
\* entry is removed all the same, the refresh task does nothing for it, and a
\* later get for the key, finding no entry, misses and goes to fetch on the
\* request path.
C25_ClosedChannelDrops ==
    /\ [][~rx_open =>
            /\ chan' = chan
            /\ worker' = worker
            /\ ~rx_open'
            /\ \A k \in Keys :
                 /\ Removals(k, {"Expired"}) > 0 => Removed(k)
                 /\ \A r \in Requests :
                      (Looks(r, k) /\ Len(inner[k]) = 0) =>
                          /\ gets'[r].pc = "fetching"
                          /\ gets'[r].fetches = 0 ]_vars
    /\ [](~rx_open => worker.pc = "stopped")
    /\ [](\A r \in Requests : gets[r].pc = "inserting" => gets[r].fetches = 1)

\* with the channel closed an entry has just expired and been removed, and
\* its key is on no channel
C25_Witness ==
    /\ ~rx_open
    /\ \E k \in Keys :
         /\ \E i \in 1..Len(notes) : notes[i] = Note(k, "Expired")
         /\ inner[k] = <<>>
         /\ CountIn(chan, k) = 0

GetHits(r) == gets[r].pc = "idle" /\ gets'[r].pc = "done"

\* C31: the age of an entry is bounded by the TTL counted from its insertion,
\* not from its last access: get never returns an entry whose insert happened
\* TTL or more ago, the expiry time of a stored entry is the time of its
\* insert plus the TTL, and a hit changes neither the entry nor that time.
C31_TtlFromInsertion ==
    /\ [][ \A r \in Requests :
             GetHits(r) =>
                 LET k == gets'[r].key[1]
                 IN  /\ inserted_at[k] >= 0
                     /\ clock < inserted_at[k] + cache_ttl
                     /\ gets'[r].result = <<inner[k][1].value>>
                     /\ inner' = inner
                     /\ inserted_at' = inserted_at ]_vars
    /\ [](\A k \in Keys :
            Len(inner[k]) = 1 => inner[k][1].last_modified = inserted_at[k])

\* a get hit an entry, and now that the TTL has passed since the insert the
\* next get for the key misses although the entry is still stored
C31_Witness ==
    \E r1, r2 \in Requests :
        /\ gets[r1].pc = "done" /\ gets[r1].hit
        /\ gets[r2].pc = "fetching"
        /\ gets[r2].key = gets[r1].key
        /\ Len(inner[gets[r1].key[1]]) = 1
        /\ inner[gets[r1].key[1]][1].value = gets[r1].result[1]
        /\ clock >= inner[gets[r1].key[1]][1].last_modified + cache_ttl

\* a refresh_repo future completes its insert in this step
PreloadInserts(i) ==
    /\ i \in 1..Len(tasks)
    /\ tasks[i].pc = "inserting"
    /\ tasks'[i].pc = "finished"

\* this step is the insert of v under k by a get, the refresh task or a preload
Inserts(k, v) ==
    \/ \E r \in Requests :
         GetInserts(r) /\ gets[r].key = <<k>> /\ gets[r].metrics = <<v>>
    \/ WorkerInserts /\ worker.key = <<k>> /\ worker.metrics = <<v>>
    \/ \E i \in 1..Len(popular_repos) :
         PreloadInserts(i) /\ popular_repos[i] = k /\ tasks[i].metrics = <<v>>

\* every snapshot that is about to be inserted
Pending ==
    { gets[r].metrics[1] : r \in { q \in Requests : gets[q].pc = "inserting" } }
        \cup (IF worker.pc = "inserting" THEN {worker.metrics[1]} ELSE {})
        \cup { tasks[i].metrics[1] :
                 i \in { j \in 1..Len(tasks) : tasks[j].pc = "inserting" } }

\* C32: insert(k, v) on a key that is already present replaces the entry
\* wholesale: after it get(k) returns v, the entry expires at the time of
\* this insert plus the TTL whatever the old entry's expiry was, and the
\* entries of all other keys are unchanged.
C32_InsertReplaces ==
    [][ \A k \in Keys : \A v \in Pending :
          (Inserts(k, v) /\ Len(inner[k]) = 1) =>
              /\ inner'[k] = <<[value |-> v, last_modified |-> clock]>>
              /\ CacheGet(inner', k, clock') = <<v>>
              /\ \A t \in 0..(MaxClock + cache_ttl) :
                   IsExpired(inner'[k][1], t) <=> t >= clock + cache_ttl
              /\ \A o \in Keys \ {k} : inner'[o] = inner[o] ]_vars

\* the last step wrote over an unexpired entry: the key holds an entry
\* written now, later than the entry of the other key
C32_Witness ==
    \E k \in Keys : \E o \in Keys \ {k} :
        /\ \E i \in 1..Len(notes) :
             notes[i].key = k /\ notes[i].cause = "Replaced"
        /\ Len(inner[k]) = 1 /\ inner[k][1].last_modified = clock
        /\ Len(inner[o]) = 1 /\ inner[o][1].last_modified < clock

\* the refresh task's fetches that are in flight
WorkerFetchesInFlight == IF worker.pc = "fetching" THEN 1 ELSE 0

\* C33: the refresh task handles the expiry notifications one at a time in
\* the order they were enqueued: the channel changes only by a key added at
\* its end or by the task taking its first key; the task takes a key only
\* when it holds none or has finished the fetch (and the insert, if any) of
\* the key it held; so it never has more than one upstream fetch in flight.
C33_OneRefreshAtATime ==
    /\ [][ /\ \/ chan' = chan
              \/ /\ Len(chan') > Len(chan)
                 /\ SubSeq(chan', 1, Len(chan)) = chan
              \/ /\ Len(chan) > 0
                 /\ chan' = Tail(chan)
                 /\ worker.pc = "recv"
                 /\ Len(worker.key) = 1 => worker.fetches = 1
                 /\ worker' = [IdleWorker EXCEPT !.pc = "fetching",
                                                 !.key = <<Head(chan)>>]
           /\ (worker.pc \in {"fetching", "inserting"} /\ rx_open') =>
                 /\ worker'.key = worker.key
                 /\ Len(chan') >= Len(chan)
           /\ worker.pc = "inserting" =>
                 (worker'.pc \in {"recv", "stopped"} \/ worker' = worker) ]_vars
    /\ [](/\ WorkerFetchesInFlight <= 1
          /\ worker.pc \in {"fetching", "inserting"} => Len(worker.key) = 1
          /\ worker.pc = "fetching" => (worker.fetches = 0 /\ worker.metrics = <<>>)
          /\ worker.pc = "inserting" => worker.fetches = 1)

\* the refresh task is about to insert for one key while the notification of
\* the other key waits on the channel
C33_Witness ==
    /\ rx_open
    /\ worker.pc = "inserting"
    /\ Len(chan) > 0
    /\ chan[1] # worker.key[1]

\* the dispatcher starts a preload cycle in this step
CycleStarts == dispatcher.pc = "tick" /\ dispatcher'.pc = "running"

\* a cycle starts only when no refresh_repo future of an earlier cycle is
\* left, and between the cycles none is in flight
CyclesDoNotOverlap ==
    /\ [][ CycleStarts =>
             /\ InFlight = {}
             /\ \A i \in 1..Len(tasks) : tasks[i] = NoTask
             /\ \A i \in 1..Len(tasks') : tasks'[i].pc = "queued" ]_vars
    /\ [](dispatcher.pc = "tick" => InFlight = {})

\* C34: preload cycles never overlap: a new cycle starts only after every
\* fetch, compute and insert of the cycle before has completed, so the number
\* of preload operations in flight across all cycles never exceeds the
\* concurrency limit.
C34_CyclesNeverOverlap ==
    /\ CyclesDoNotOverlap
    /\ [](dispatcher.pc # "off" => Cardinality(InFlight) <= dispatcher.limit)

\* the dispatcher's cycle ends in this step
CycleEnds == dispatcher.pc = "running" /\ dispatcher'.pc = "tick"

\* C35: the preload dispatcher never skips a target because it is already
\* cached: a cycle queues every target, a queued target can only go on to its
\* upstream fetch, a target is finished only after its fetch, and the cycle
\* ends only when every target is finished; a successful fetch is followed by
\* an insert that writes the new snapshot over the target's entry with a
\* fresh TTL, an unexpired entry included.
C35_PreloadNeverSkips ==
    [][ /\ CycleStarts => \A i \in 1..Len(popular_repos) : tasks'[i].pc = "queued"
        /\ CycleEnds => \A i \in 1..Len(popular_repos) : tasks[i].pc = "finished"
        /\ \A i \in 1..Len(popular_repos) :
             /\ (tasks[i].pc = "queued" /\ tasks'[i] # tasks[i]) =>
                    /\ tasks'[i].pc = "fetching"
                    /\ inner' = inner
             /\ (tasks[i].pc = "fetching" /\ tasks'[i] # tasks[i]) =>
                    \/ tasks'[i].pc = "finished" /\ inner' = inner
                    \/ /\ tasks'[i].pc = "inserting"
                       /\ tasks'[i].metrics = <<Snapshot(popular_repos[i], clock)>>
             /\ (tasks[i].pc = "inserting" /\ tasks'[i] # tasks[i]) =>
                    /\ tasks'[i].pc = "finished"
                    /\ inner'[popular_repos[i]] =
                         <<[value |-> tasks[i].metrics[1], last_modified |-> clock]>>
                    /\ inserted_at'[popular_repos[i]] = clock
                    /\ CacheGet(inner', popular_repos[i], clock') = tasks[i].metrics
             /\ (tasks[i].pc # "finished" /\ tasks'[i].pc = "finished") =>
                    tasks[i].pc \in {"fetching", "inserting"} ]_vars

\* in a later cycle a preload has just written over the unexpired entry of
\* its target, no get being in progress
C35_Witness ==
    \E i \in 1..Len(popular_repos) :
        /\ dispatcher.pc = "running"
        /\ dispatcher.next_tick >= 2 * refresh_period
        /\ tasks[i].pc = "finished"
        /\ \A r \in Requests : gets[r].pc = "idle"
        /\ notes = <<Note(popular_repos[i], "Replaced")>>
        /\ Len(inner[popular_repos[i]]) = 1
        /\ inner[popular_repos[i]][1].last_modified = clock
        /\ inner[popular_repos[i]][1].value.computed_at <= clock

\* v is what a successful fetch for k computes, at some time up to t
FetchedFor(v, k, t) == \E c \in 0..t : v = Snapshot(k, c)

\* C36: under any interleaving of read-through gets, refreshes by the refresh
\* task and preloads, the value stored under a key k is a snapshot computed
\* from a completed successful upstream fetch for that same k: the snapshot a
\* task is about to insert was fetched by that task for its own key, an entry
\* appears or changes only by such an insert under that key, a failed fetch
\* leaves the store unchanged, and no entry holds a snapshot of another key.
C36_EntriesAreOwnSnapshots ==
    /\ [](/\ \A k \in Keys :
               Len(inner[k]) = 1 =>
                   FetchedFor(inner[k][1].value, k, inner[k][1].last_modified)
          /\ \A r \in Requests :
               gets[r].pc = "inserting" =>
                   (gets[r].fetches = 1
                      /\ FetchedFor(gets[r].metrics[1], gets[r].key[1], clock))
          /\ worker.pc = "inserting" =>
               (worker.fetches = 1
                  /\ FetchedFor(worker.metrics[1], worker.key[1], clock))
          /\ \A i \in 1..Len(tasks) :
               tasks[i].pc = "inserting" =>
                   FetchedFor(tasks[i].metrics[1], popular_repos[i], clock))
    /\ [][ /\ \A k \in Keys :
                (inner'[k] # inner[k] /\ Len(inner'[k]) = 1) =>
                    \E v \in Pending :
                        /\ Inserts(k, v)
                        /\ inner'[k][1].value = v
                        /\ v.key = k
           /\ ((\E r \in Requests : GetFails(r)) \/ WorkerFetchFails
                 \/ (\E i \in 1..Len(tasks) : TaskFails(i))) => inner' = inner ]_vars

\* two gets for different keys fetched at the same time and both inserted,
\* the refresh task having failed for a key that is stored all the same
C36_Witness ==
    \E r1, r2 \in Requests :
        /\ gets[r1].pc = "done" /\ ~gets[r1].hit
        /\ gets[r2].pc = "done" /\ ~gets[r2].hit
        /\ gets[r1].key # gets[r2].key
        /\ \A k \in Keys : Len(inner[k]) = 1
        /\ inner[gets[r1].key[1]][1].value = gets[r1].result[1]
        /\ inner[gets[r2].key[1]][1].value = gets[r2].result[1]
        /\ worker.pc = "recv" /\ worker.fetches = 1 /\ worker.metrics = <<>>

(***************************************************************************)
(* Claims about the indices of the timelines.                              *)
(***************************************************************************)
\* the lookups sum_in_window makes in pt for the output point of i days ago
\* stay inside pt, and its result is the plain difference of the two buckets
LookupInRange(pt, d, w, t, i) ==
    LET dn == date_naive(minus_days(t, i))
        e  == end_idx_signed(pt, dn)
        s  == start_idx_signed(pt, dn, w)
    IN  /\ e \in w..(d + w)
        /\ s \in 0..d
        /\ e < Len(pt.prefix_counts)
        /\ s < Len(pt.prefix_counts)
        /\ sum_in_window(pt, dn, w) = pt.prefix_counts[e + 1] - pt.prefix_counts[s + 1]

\* C37: for non-negative D and W the timelines have exactly D + W + 1 daily
\* buckets and every lookup of calculate_metrics is in range: for each output
\* point the end index lies in [W, D + W] and the window-start index in
\* [0, D], so sum_in_window takes neither a fallback for an index out of
\* bounds nor a branch for a negative index.
C37_LookupsInRange ==
    (mpc = "done" /\ days_to_display >= 0 /\ window_size >= 0) =>
        LET d  == days_to_display
            w  == window_size
            tl == Timeline_new(start_date(now, d, w), latest_date(now))
            op == opened_prefix(prs, d, w, now)
            mp == merged_prefix(prs, d, w, now)
        IN  /\ Len(tl.counts) = d + w + 1
            /\ Len(op.prefix_counts) = d + w + 1
            /\ Len(mp.prefix_counts) = d + w + 1
            /\ \A i \in 0..d :
                 /\ LookupInRange(op, d, w, now, i)
                 /\ LookupInRange(mp, d, w, now, i)
                 /\ response.time_series[d - i + 1].opened =
                      sum_in_window(op, date_naive(minus_days(now, i)), w)
                 /\ response.time_series[d - i + 1].merged =
                      sum_in_window(mp, date_naive(minus_days(now, i)), w)

\* calculate_metrics has run with D >= 1 and W >= 1 on records of which the
\* oldest output point counts one and the newest counts a merge
C37_Witness ==
    /\ mpc = "done"
    /\ days_to_display >= 1
    /\ window_size >= 1
    /\ Len(prs) >= 2
    /\ response.time_series[1].opened >= 1
    /\ response.time_series[days_to_display + 1].merged >= 1

====
